---- MODULE Spec2Model ----
(***************************************************************************)
(* A model of gitqq (src/index.js): the account store (ConfigManager), the *)
(* identity activator (GitManager.switchAccount), the main menu and the    *)
(* operations loop (CLI.showGitCommandMenu) with its handlers.             *)
(***************************************************************************)
EXTENDS Integers, Sequences, FiniteSets, TLC

VARIABLES
    config,        \* ConfigManager.config: the in-memory store
    file,          \* ~/.gitqq-config.json
    keyFiles,      \* names of the private key files present under ~/.ssh
    gitUser,       \* git config --global user.name / user.email
    sshConfig,     \* ~/.ssh/config, as its sequence of non-blank lines
    pc,            \* where the process is (which prompt or statement is next)
    cwd,           \* process.cwd()
    repos,         \* the git working directories of the machine
    currentAccount,\* showGitCommandMenu's local currentAccount
    repoStatus,    \* showGitCommandMenu's local repoStatus
    iterLog,       \* what the current loop iteration has run, in order
    pushView,      \* what handlePush has shown: comparison, status line, menu
    lastOp,        \* history: the last operation of the menu or of this loop
                   \* iteration, its inputs and its outcome
    hist,          \* history: branch picked / used, and per-directory choices
    writeFailures, \* how many writes of the config file have failed so far
    switches,      \* how many times switchAccount has been called
    gitFailures,   \* how many git commands have failed so far
    run,           \* history: the git commands of the last step
    exec,          \* the handler's commands and prompts, the one it is at, and
                   \* the child processes that are running
    peer           \* the tool in a second terminal: what that process holds

vars == <<config, file, keyFiles, gitUser, sshConfig, pc, cwd, repos,
          currentAccount, repoStatus, iterLog, pushView, lastOp, hist,
          writeFailures, switches, gitFailures, run, exec, peer>>

----------------------------------------------------------------------------
(* Bounds of the model *)

MaxWriteFailures == 1
MaxSwitches == 2
MaxGitFailures == 1
MaxCount == 1
MaxNameLen == 2

(* The strings the user types and the things found on the machine. *)
Null == "null"
Undefined == "undefined"
\* "__proto__" passes the username prompt's validation (non-blank) like any
\* other string; as a property name of a JavaScript object it is special.
Handles == {"alice", "bob", "__proto__"}
Emails == {"a@x.org", "b@x.org"}
KeyNames == {"id_rsa", "id_alice"}
Dirs == {"/A", "/B"}
Branches == {"main", "dev"}

EmptyMap == [x \in {} |-> x]
Put(f, k, v) == [x \in (DOMAIN f) \cup {k} |-> IF x = k THEN v ELSE f[x]]
Del(f, k) == [x \in (DOMAIN f) \ {k} |-> f[x]]

----------------------------------------------------------------------------
(* ConfigManager: the store *)

\* Object.prototype, what a plain object inherits from
ObjectPrototype == [builtin |-> TRUE]

\* loadConfig's fallback value, line 28. hasAccounts says that the object has
\* an accounts property; without one, accounts is the {} that getAccounts
\* (line 71) puts in its place. A currentAccount or defaultBranch property the
\* object does not have is Undefined, repoSettings it does not have is empty.
DefaultStore ==
    [accounts |-> EmptyMap, hasAccounts |-> TRUE, proto |-> ObjectPrototype,
     currentAccount |-> Null, defaultBranch |-> Undefined,
     repoSettings |-> EmptyMap]

\* Object.keys(accounts): the own enumerable properties
ObjectKeys(c) == DOMAIN c.accounts

\* accounts[key]: an own property, else what the prototype chain gives.
\* Every result is an object or undefined; [missing |-> TRUE] is undefined.
Lookup(c, key) ==
    IF key \in DOMAIN c.accounts THEN c.accounts[key]
    ELSE IF key = "__proto__" THEN c.proto
    ELSE [missing |-> TRUE]

Truthy(obj) == obj # [missing |-> TRUE]

\* JSON text, as the set of its members: <<path, scalar>>
JStr(s) == <<"string", s>>
JNull == <<"null">>
JBool(b) == IF b THEN <<"true">> ELSE <<"false">>
JObject == <<"object">>

AccountFields == {"name", "email", "sshKey", "customKey"}

JField(data, f) ==
    CASE f = "name" -> JStr(data.name)
      [] f = "email" -> JStr(data.email)
      [] f = "sshKey" -> JStr(data.sshKey)
      [] OTHER -> JBool(data.customKey)

\* JSON.stringify(this.config, null, 2): own enumerable properties only,
\* a property whose value is undefined is left out
Stringify(c) ==
    (IF c.hasAccounts THEN {<<<<"accounts">>, JObject>>} ELSE {})
    \cup {<<<<"accounts", h>>, JObject>> : h \in DOMAIN c.accounts}
    \cup {<<<<"accounts", hf[1], hf[2]>>, JField(c.accounts[hf[1]], hf[2])>> :
            hf \in (DOMAIN c.accounts) \X AccountFields}
    \cup (IF c.currentAccount = Undefined THEN {}
          ELSE {<<<<"currentAccount">>,
                  IF c.currentAccount = Null THEN JNull
                  ELSE JStr(c.currentAccount)>>})
    \cup (IF c.defaultBranch = Undefined THEN {}
          ELSE {<<<<"defaultBranch">>, JStr(c.defaultBranch)>>})
    \cup (IF DOMAIN c.repoSettings = {} THEN {}
          ELSE {<<<<"repoSettings">>, JObject>>})
    \cup {<<<<"repoSettings", d>>, JObject>> : d \in DOMAIN c.repoSettings}
    \cup {<<<<"repoSettings", d, "initialBranchSelected">>,
            JBool(c.repoSettings[d].initialBranchSelected)>> :
            d \in DOMAIN c.repoSettings}
    \cup {<<<<"repoSettings", d, "selectedBranch">>,
            JStr(c.repoSettings[d].selectedBranch)>> :
            d \in DOMAIN c.repoSettings}

HasMember(doc, path) == \E m \in doc : m[1] = path
MemberOf(doc, path) == (CHOOSE m \in doc : m[1] = path)[2]
StrOf(v) == IF v[1] = "string" THEN v[2] ELSE Null
BoolOf(v) == v[1] = "true"
KeysUnder(doc, top) == {m[1][2] : m \in {x \in doc : Len(x[1]) = 2 /\ x[1][1] = top}}

\* JSON.parse(text): every member becomes an own property of a plain object
Parse(doc) ==
    [accounts |->
        [h \in KeysUnder(doc, "accounts") |->
            [name |-> StrOf(MemberOf(doc, <<"accounts", h, "name">>)),
             email |-> StrOf(MemberOf(doc, <<"accounts", h, "email">>)),
             sshKey |-> StrOf(MemberOf(doc, <<"accounts", h, "sshKey">>)),
             customKey |-> BoolOf(MemberOf(doc, <<"accounts", h, "customKey">>))]],
     hasAccounts |-> HasMember(doc, <<"accounts">>),
     proto |-> ObjectPrototype,
     currentAccount |->
        IF HasMember(doc, <<"currentAccount">>)
        THEN StrOf(MemberOf(doc, <<"currentAccount">>)) ELSE Undefined,
     defaultBranch |->
        IF HasMember(doc, <<"defaultBranch">>)
        THEN StrOf(MemberOf(doc, <<"defaultBranch">>)) ELSE Undefined,
     repoSettings |->
        [d \in KeysUnder(doc, "repoSettings") |->
            [initialBranchSelected |->
                BoolOf(MemberOf(doc, <<"repoSettings", d, "initialBranchSelected">>)),
             selectedBranch |->
                StrOf(MemberOf(doc, <<"repoSettings", d, "selectedBranch">>))]]]

NoFile == [kind |-> "absent", doc |-> {}]

\* A configuration file whose text JSON.parse rejects: the text of a store
\* cut off before its closing brace, or text that was never a store's
Truncated(doc) == [kind |-> "truncated", doc |-> doc]
Garbled == [kind |-> "garbled", doc |-> {}]

\* loadConfig that reads what a rejected text still holds
LoadConfig_ReadsWhatItCan(f) ==
    IF f.kind \in {"json", "truncated"} THEN Parse(f.doc) ELSE DefaultStore

\* loadConfig, lines 19-29
LoadConfig(f) == IF f.kind = "json" THEN Parse(f.doc) ELSE DefaultStore

\* saveConfig that writes the two properties of the default store only
SaveConfig_DefaultKeysOnly(c, f, writeOk) ==
    IF writeOk
    THEN [kind |-> "json",
          doc |-> Stringify([c EXCEPT !.defaultBranch = Undefined,
                                      !.repoSettings = EmptyMap])]
    ELSE f

\* saveConfig, lines 31-37: a write that throws is logged and nothing else
SaveConfig(c, f, writeOk) ==
    IF writeOk THEN [kind |-> "json", doc |-> Stringify(c)] ELSE f

\* this.config.accounts[...] when the store has no accounts property: reading
\* or setting a property of undefined throws a TypeError (lines 40, 45, 60)
AccountsThrows(c) == ~c.hasAccounts

\* addAccount's store update, line 40: accounts[username] = data
CfgAddAccount(c, username, data) ==
    IF username = "__proto__" THEN [c EXCEPT !.proto = data]
    ELSE [c EXCEPT !.accounts = Put(c.accounts, username, data)]

\* removeAccount without lines 46-48: the active handle is left as it is
CfgRemoveAccount_KeepsActive(c, username) ==
    [c EXCEPT !.accounts = Del(c.accounts, username)]

\* removeAccount's store update, lines 45-48
CfgRemoveAccount(c, username) ==
    [c EXCEPT !.accounts = Del(c.accounts, username),
              !.currentAccount =
                  IF c.currentAccount = username THEN Null ELSE c.currentAccount]

\* setCurrentAccount's store update, line 53
CfgSetCurrentAccount(c, username) == [c EXCEPT !.currentAccount = username]

\* getCurrentAccount, lines 57-68
GetCurrentAccount(c) ==
    IF c.currentAccount \in {Null, Undefined} THEN [username |-> Null]
    ELSE IF Truthy(Lookup(c, c.currentAccount))
         THEN [username |-> c.currentAccount, data |-> Lookup(c, c.currentAccount)]
         ELSE [username |-> Null]

\* isFirstTimeInRepo, lines 75-82
IsFirstTimeInRepo(c, dir) ==
    \/ dir \notin DOMAIN c.repoSettings
    \/ ~c.repoSettings[dir].initialBranchSelected

\* setRepoInitialized's store update, lines 85-93
CfgSetRepoInitialized(c, dir, branchName) ==
    [c EXCEPT !.repoSettings =
        Put(c.repoSettings, dir,
            [initialBranchSelected |-> TRUE, selectedBranch |-> branchName])]

\* getDefaultBranch, lines 585-587
GetDefaultBranch(c) == IF c.defaultBranch = Undefined THEN "main" ELSE c.defaultBranch

\* setDefaultBranch's store update, line 590
CfgSetDefaultBranch(c, branch) == [c EXCEPT !.defaultBranch = branch]

----------------------------------------------------------------------------
(* SSHManager and GitManager.switchAccount *)

\* `id_${username}`, lines 425 and 481
IdKey(username) ==
    CASE username = "alice" -> "id_alice"
      [] username = "bob" -> "id_bob"
      [] OTHER -> "id___proto__"

\* validateSSHKey that does not look at the file system
ValidateSSHKey_NoLookup(keyName, files) == TRUE

\* validateSSHKey, lines 100-103
ValidateSSHKey(keyName, files) == keyName \in files

\* A line of ~/.ssh/config is <<keyword, argument>>.
\* the text "Host github.com" occurs in the line (also in "Host github.com-work")
MatchesHostGithub(l) == l[1] = "Host" /\ l[2] \in {"github.com", "github.com-work"}
\* the text "Host" occurs in the line: what the lookahead (?=Host|\Z) finds
ContainsHost(l) == l[1] \in {"Host", "HostName"}

\* the first line after position i in which "Host" occurs, or 0
NextHost(lines, i) ==
    IF \E j \in (i + 1)..Len(lines) : ContainsHost(lines[j])
    THEN CHOOSE j \in (i + 1)..Len(lines) :
            /\ ContainsHost(lines[j])
            /\ \A k \in (i + 1)..(j - 1) : ~ContainsHost(lines[k])
    ELSE 0

\* sshConfig.replace(/Host github\.com[\s\S]*?(?=Host|\Z)/g, ""), lines 128-131:
\* from each "Host github.com", the text up to the next "Host" is removed; with
\* no "Host" in the rest of the file the pattern does not match there.
RECURSIVE StripFrom(_, _)
StripFrom(lines, i) ==
    IF i > Len(lines) THEN <<>>
    ELSE IF MatchesHostGithub(lines[i]) /\ NextHost(lines, i) # 0
         THEN StripFrom(lines, NextHost(lines, i))
         ELSE <<lines[i]>> \o StripFrom(lines, i + 1)

StripManaged(lines) == StripFrom(lines, 1)

\* newConfig, lines 134-141
ManagedBlock(sshKey) ==
    << <<"Host", "github.com">>, <<"HostName", "github.com">>, <<"User", "git">>,
       <<"IdentityFile", sshKey>>, <<"IdentitiesOnly", "yes">> >>

NoGitUser == [name |-> Undefined, email |-> Undefined]

SwitchOutcomes == {"ok", "failName", "failEmail", "failWrite"}

\* switchAccount, lines 112-161. outcome says which call threw, if any: the
\* first or second git config, or reading / writing ~/.ssh/config.
SwitchAccount(account, outcome, user, ssh) ==
    [gitUser |->
        CASE outcome = "failName" -> user
          [] outcome = "failEmail" -> [user EXCEPT !.name = account.name]
          [] OTHER -> [name |-> account.name, email |-> account.email],
     sshConfig |->
        IF outcome = "ok" THEN ManagedBlock(account.sshKey) \o StripManaged(ssh)
        ELSE ssh,
     switched |-> outcome = "ok"]

----------------------------------------------------------------------------
(* The machine: working directories *)

\* A URL is the sequence of its pieces: "https://", "github.com", "/", ".git",
\* "git@github.com:" and the pieces of names. No remote is the empty string.
NoUrl == <<>>
HttpsUrl(user, repo) ==
    <<"https://", "github.com", "/">> \o user \o <<"/">> \o repo \o <<".git">>
SshUrl(user, repo) == <<"git@github.com:">> \o user \o <<"/">> \o repo \o <<".git">>
\* https://github.com/u/r.git, https://github.com/u/r, git@github.com:u/r.git
HttpsGithub == HttpsUrl(<<"u">>, <<"r">>)
HttpsNoSuffix == <<"https://", "github.com", "/", "u", "/", "r">>
SshGithub == SshUrl(<<"u">>, <<"r">>)
\* git@github.com:u/already exists.git: the shell splits it into two words
SpacedPieces == {"already exists"}
SshWithSpace == SshUrl(<<"u">>, <<"already exists">>)
HasSpace(url) == \E i \in DOMAIN url : url[i] \in SpacedPieces

NotARepo ==
    [isRepo |-> FALSE, remote |-> NoUrl, branches |-> {}, remoteBranches |-> {},
     current |-> Null]

NoStatus ==
    [isGitRepo |-> FALSE, hasRemote |-> FALSE, hasHttpsRemote |-> FALSE,
     remoteUrl |-> NoUrl]

NoAccount == [username |-> Null]
NoPushView == [shown |-> FALSE]
NoOp ==
    [op |-> "none", method |-> Null, result |-> Null, wasActive |-> FALSE,
     saved |-> "none"]
\* cli.start().catch, lines 1449-1454: a rejection that reaches the top is
\* logged and the process exits with status 1
ApplicationError == [NoOp EXCEPT !.op = "applicationError"]
NoHist ==
    [picked |-> Null, recorded |-> Null, ensured |-> Null,
     chosenIn |-> [d \in Dirs |-> Null]]

Fails(ok) == IF ok THEN 0 ELSE 1
SavedAs(ok) == IF ok THEN "ok" ELSE "failed"

\* executeGitCommand that leaves ssh to its default key
GitSshCommand_DefaultKey(account) == "id_rsa"

\* executeGitCommand, lines 163-178: the key file of GIT_SSH_COMMAND
\* (ssh -i "<key>" -o IdentitiesOnly=yes), Null when the variable is not set
GitSshCommand(account) ==
    IF account.username # Null /\ "sshKey" \in DOMAIN account.data
    THEN account.data.sshKey
    ELSE Null

\* One entry of run.cmds: a git command with its argument and how it ended
\* ("ok", "failed", or the text the handlers look for in error.message), or
\* a prompt the user answered
Cmd(c, arg, res) == [cmd |-> c, arg |-> arg, res |-> res]
Asked(name) == Cmd("prompt", name, "ok")
OkOr(ok) == IF ok THEN "ok" ELSE "failed"
IsGit(c) == c.cmd # "prompt"
\* The part of a step's commands and prompts that starts at the first command
\* that failed; empty when none failed
SinceFailure(cmds) ==
    LET failed == {i \in DOMAIN cmds : cmds[i].res # "ok"}
    IN  IF failed = {} THEN <<>>
        ELSE SubSeq(cmds, CHOOSE i \in failed : \A j \in failed : i <= j, Len(cmds))
\* run: whether the step ran a git command, the key every one of them was
\* given, and what the step did from its first failure on
NoRun == [key |-> Null, git |-> FALSE, cmds |-> <<>>]
\* No handler is running, no child process either
NoExec == [flow |-> <<>>, at |-> 1, running |-> {}, prompting |-> FALSE]

\* A second terminal in which the tool has not been started: the variables
\* of the process, as they are after process.exit
NoPeer ==
    [config |-> DefaultStore, pc |-> "exited", cwd |-> "/A",
     currentAccount |-> NoAccount, repoStatus |-> NoStatus, iterLog |-> <<>>,
     pushView |-> NoPushView]

RunOf(account, cmds) ==
    [key |-> GitSshCommand(account),
     git |-> \E i \in DOMAIN cmds : IsGit(cmds[i]),
     cmds |-> SinceFailure(cmds)]

----------------------------------------------------------------------------
(* CLI: the main menu *)

AddMethods == {"generate", "paste", "file"}
ToolOutcomes == {"ok", "fail", "failChmod"}

\* What stops the add-account flow before the store is touched, lines 423-518
AddResult(method, key, tool, keyAdded, files) ==
    CASE method = "generate" /\ (tool # "ok" \/ key \in files) -> "KeygenFailed"
      [] method = "generate" /\ ~keyAdded -> "KeyNotAdded"
      [] method = "paste" /\ tool # "ok" -> "SaveKeyFailed"
      [] method = "file" /\ ~ValidateSSHKey(key, files) -> "KeyMissing"
      [] OTHER -> "ok"

\* The key files the flow leaves on disk: ssh-keygen's, or the pasted one
AddKeyFiles(method, key, tool, files) ==
    CASE method = "generate" /\ tool = "ok" /\ key \notin files -> files \cup {key}
      [] method = "paste" /\ tool # "fail" -> files \cup {key}
      [] OTHER -> files

\* CLI.addAccount, lines 388-538
AddAccount(username, email, method, existingKey, tool, keyAdded, w1, w2, outcome) ==
    /\ pc = "main"
    /\ LET key == IF method = "file" THEN existingKey ELSE IdKey(username)
           result == AddResult(method, key, tool, keyAdded, keyFiles)
           data == [name |-> username, email |-> email, sshKey |-> key,
                    customKey |-> method # "file"]
           c1 == CfgAddAccount(config, username, data)
           f1 == SaveConfig(c1, file, w1)
           c2 == CfgSetCurrentAccount(c1, username)
           f2 == SaveConfig(c2, f1, w2)
           sw == SwitchAccount([username |-> username, name |-> username,
                                email |-> email, sshKey |-> key],
                               outcome, gitUser, sshConfig)
       IN  /\ keyFiles' = AddKeyFiles(method, key, tool, keyFiles)
           /\ IF result # "ok"
              THEN /\ lastOp' = [NoOp EXCEPT !.op = "addAccount", !.method = method,
                                     !.result = result]
                   /\ UNCHANGED <<config, file, gitUser, sshConfig, writeFailures,
                                  switches, pc>>
              ELSE IF AccountsThrows(config)
              THEN \* line 40 throws: nothing catches it before lines 1450-1453
                   /\ pc' = "exited"
                   /\ lastOp' = [ApplicationError EXCEPT !.method = method,
                                                      !.result = "TypeError"]
                   /\ UNCHANGED <<config, file, gitUser, sshConfig, writeFailures,
                                  switches>>
              ELSE /\ writeFailures + Fails(w1) + Fails(w2) <= MaxWriteFailures
                   /\ switches < MaxSwitches
                   /\ config' = c2
                   /\ file' = f2
                   /\ gitUser' = sw.gitUser
                   /\ sshConfig' = sw.sshConfig
                   /\ writeFailures' = writeFailures + Fails(w1) + Fails(w2)
                   /\ switches' = switches + 1
                   /\ lastOp' = [NoOp EXCEPT !.op = "addAccount", !.method = method,
                                     !.result = "ok", !.saved = SavedAs(w2)]
                   /\ UNCHANGED pc
    /\ run' = NoRun
    /\ UNCHANGED <<cwd, repos, currentAccount, repoStatus, iterLog, pushView,
                   hist, gitFailures>>
    /\ UNCHANGED <<exec, peer>>

\* CLI.removeAccount, lines 540-571
RemoveAccount(h, confirmRemove, w) ==
    /\ pc = "main"
    /\ IF ObjectKeys(config) = {}
       THEN /\ lastOp' = [NoOp EXCEPT !.op = "removeAccount", !.result = "NoAccounts"]
            /\ UNCHANGED <<config, file, writeFailures>>
       ELSE /\ h \in ObjectKeys(config)
            /\ IF confirmRemove
               THEN /\ writeFailures + Fails(w) <= MaxWriteFailures
                    /\ config' = CfgRemoveAccount(config, h)
                    /\ file' = SaveConfig(config', file, w)
                    /\ writeFailures' = writeFailures + Fails(w)
                    /\ lastOp' = [NoOp EXCEPT !.op = "removeAccount",
                                      !.result = "ok", !.saved = SavedAs(w),
                                      !.wasActive = (config.currentAccount = h)]
               ELSE /\ lastOp' = [NoOp EXCEPT !.op = "removeAccount",
                                      !.result = "declined"]
                    /\ UNCHANGED <<config, file, writeFailures>>
    /\ run' = NoRun
    /\ UNCHANGED <<keyFiles, gitUser, sshConfig, pc, cwd, repos, currentAccount,
                   repoStatus, iterLog, pushView, hist, switches, gitFailures>>
    /\ UNCHANGED <<exec, peer>>

\* CLI.handleAction for a select-<username> choice, lines 238-251, up to the
\* first statement of showGitCommandMenu, line 268
SelectAccount(h, w, outcome) ==
    /\ pc = "main"
    /\ h \in ObjectKeys(config)
    /\ writeFailures + Fails(w) <= MaxWriteFailures
    /\ LET data == Lookup(config, h)
           sw == SwitchAccount([username |-> h, name |-> data.name,
                                email |-> data.email, sshKey |-> data.sshKey],
                               outcome, gitUser, sshConfig)
       IN  /\ switches < MaxSwitches
           /\ config' = CfgSetCurrentAccount(config, h)
           /\ file' = SaveConfig(config', file, w)
           /\ gitUser' = sw.gitUser
           /\ sshConfig' = sw.sshConfig
           /\ switches' = switches + 1
    /\ writeFailures' = writeFailures + Fails(w)
    /\ currentAccount' = GetCurrentAccount(config')
    /\ pc' = "loop"
    /\ lastOp' = [NoOp EXCEPT !.op = "select", !.result = "ok",
                      !.saved = SavedAs(w)]
    /\ run' = NoRun
    /\ UNCHANGED <<keyFiles, cwd, repos, repoStatus, iterLog, pushView, hist,
                   gitFailures>>
    /\ UNCHANGED <<exec, peer>>

\* process.exit(0) from a menu that offers Exit, lines 232-235 and 359-362
Exit ==
    /\ pc \in {"main", "menu"}
    /\ pc' = "exited"
    /\ lastOp' = [NoOp EXCEPT !.op = "exit"]
    /\ run' = NoRun
    /\ UNCHANGED <<config, file, keyFiles, gitUser, sshConfig, cwd, repos,
                   currentAccount, repoStatus, iterLog, pushView, hist,
                   writeFailures, switches, gitFailures>>
    /\ UNCHANGED <<exec, peer>>

\* The tool is started again, in directory dir: new CLI(), lines 183-185 and 1450
Start(dir) ==
    /\ pc = "exited"
    /\ config' = LoadConfig(file)
    /\ cwd' = dir
    /\ pc' = "main"
    /\ currentAccount' = NoAccount
    /\ repoStatus' = NoStatus
    /\ iterLog' = <<>>
    /\ pushView' = NoPushView
    /\ lastOp' = [NoOp EXCEPT !.op = "start"]
    /\ run' = NoRun
    /\ UNCHANGED <<file, keyFiles, gitUser, sshConfig, repos, hist, writeFailures,
                   switches, gitFailures>>
    /\ UNCHANGED <<exec, peer>>

----------------------------------------------------------------------------
(* CLI.showGitCommandMenu: the operations loop *)

\* checkRepositoryStatus, lines 1318-1346
RepoStatusOf(r) ==
    IF ~r.isRepo THEN NoStatus
    ELSE IF r.remote = NoUrl
         THEN [NoStatus EXCEPT !.isGitRepo = TRUE]
         ELSE [isGitRepo |-> TRUE, hasRemote |-> TRUE,
               hasHttpsRemote |-> r.remote[1] = "https://",
               remoteUrl |-> r.remote]

\* The commands of checkRepositoryStatus, lines 1326-1343
StatusCmds(r) ==
    IF ~r.isRepo THEN <<Cmd("git status", Null, "failed")>>
    ELSE <<Cmd("git status", Null, "ok"),
           Cmd("git remote get-url origin", Null, OkOr(r.remote # NoUrl))>>

\* The top of the while loop, lines 270-274
CheckRepositoryStatus ==
    /\ pc = "loop"
    /\ repoStatus' = RepoStatusOf(repos[cwd])
    /\ run' = RunOf(currentAccount, StatusCmds(repos[cwd]))
    /\ iterLog' = <<>>
    /\ hist' = [hist EXCEPT !.picked = Null, !.recorded = Null, !.ensured = Null]
    /\ lastOp' = NoOp
    /\ pc' = IF repoStatus'.isGitRepo THEN "noRemoteCheck" ELSE "noRepoPrompt"
    /\ UNCHANGED <<config, file, keyFiles, gitUser, sshConfig, cwd, repos,
                   currentAccount, pushView, writeFailures, switches,
                   gitFailures>>
    /\ UNCHANGED <<exec, peer>>

----------------------------------------------------------------------------
(* git, as far as the tool's commands look at it or change it *)

\* A branch is listed (git branch) once it has a commit; in a repository with
\* no commit yet (unborn) only the name of the checked-out branch exists.
ListedBranches(r) == r.branches
AllBranches(r) == r.branches \cup r.remoteBranches

\* git init in a directory that is no repository
GitInit(r) ==
    [isRepo |-> TRUE, remote |-> NoUrl, branches |-> {}, remoteBranches |-> {},
     current |-> "master"]

\* git branch -M main
GitRenameToMain(r) ==
    [r EXCEPT !.current = "main",
              !.branches = IF r.current \in r.branches
                           THEN (r.branches \ {r.current}) \cup {"main"}
                           ELSE r.branches]

\* git checkout <b>: <b> must be a listed branch, or a remote one to track
CanCheckout(r, b) == r.isRepo /\ b \in AllBranches(r)
GitCheckout(r, b) == [r EXCEPT !.current = b, !.branches = r.branches \cup {b}]

\* git checkout -b <b> [origin/<b>]: <b> must not be a listed branch
CanCheckoutNew(r, b) == r.isRepo /\ b \notin r.branches
GitCheckoutNew(r, b) ==
    [r EXCEPT !.current = b,
              !.branches = IF r.branches = {} THEN {} ELSE r.branches \cup {b}]

\* git push [-u] origin <b>: there is a remote and <b> has a commit
CanPush(r, b) == r.isRepo /\ r.remote # NoUrl /\ b \in r.branches
GitPushBranch(r, b) == [r EXCEPT !.remoteBranches = r.remoteBranches \cup {b}]

\* git branch --show-current, trimmed; getCurrentBranch, lines 573-583
GetCurrentBranch(r) == IF r.isRepo THEN r.current ELSE Null

----------------------------------------------------------------------------
(* The steps of one loop iteration, lines 270-341 *)

\* The validation of the SSH URL prompt, lines 1389-1398
AcceptsRemoteUrl(url) ==
    /\ url # <<>>
    /\ url[1] = "git@github.com:"
    /\ url[Len(url)] = ".git"

\* git remote add origin <url>: what error.message holds when it fails. The
\* message of a failed exec starts with the command line, so the typed URL
\* is part of it.
RemoteAddResult(r, url, fail) ==
    IF r.isRepo /\ r.remote = NoUrl /\ ~HasSpace(url) /\ ~fail THEN "ok"
    ELSE IF (r.isRepo /\ r.remote # NoUrl /\ ~HasSpace(url) /\ ~fail)
            \/ \E i \in DOMAIN url : url[i] = "already exists"
         THEN "already exists"
         ELSE "failed"

\* git remote set-url origin <url>; with a second word, the old URL to replace
CanSetUrl(r, url) == r.isRepo /\ r.remote # NoUrl /\ ~HasSpace(url)

\* setupRemoteOrigin from the answer to its prompt, lines 1401-1420: git remote
\* add, and git remote set-url when the message holds "already exists". fail
\* makes git remote add fail. threw: the rejection of set-url, which nothing
\* in setupRemoteOrigin catches.
SetupRemoteOrigin(r, url, fail) ==
    LET added == RemoteAddResult(r, url, fail)
        add == <<Asked("remoteUrl"), Cmd("git remote add origin", url, added)>>
    IN  CASE added = "ok" ->
               [repo |-> [r EXCEPT !.remote = url], cmds |-> add, threw |-> FALSE]
          [] added = "already exists" ->
               [repo |-> IF CanSetUrl(r, url) THEN [r EXCEPT !.remote = url] ELSE r,
                cmds |-> Append(add, Cmd("git remote set-url origin", url,
                                         OkOr(CanSetUrl(r, url)))),
                threw |-> ~CanSetUrl(r, url)]
          [] OTHER -> [repo |-> r, cmds |-> add, threw |-> FALSE]

\* /https:\/\/github\.com\/(.+)\/(.+)\.git/, line 1432: where the pattern can
\* match, as <<start, the "/" between the groups, the closing ".git">>
GithubHttpsMatches(url) ==
    {m \in (DOMAIN url) \X (DOMAIN url) \X (DOMAIN url) :
        /\ m[1] + 2 <= Len(url)
        /\ url[m[1]] = "https://" /\ url[m[1] + 1] = "github.com"
        /\ url[m[1] + 2] = "/"
        /\ m[2] >= m[1] + 4 /\ url[m[2]] = "/"
        /\ m[3] >= m[2] + 2 /\ url[m[3]] = ".git"}

MatchesGithubHttps(url) == GithubHttpsMatches(url) # {}

Least(S) == CHOOSE x \in S : \A y \in S : x <= y
Greatest(S) == CHOOSE x \in S : \A y \in S : y <= x

\* The conversion with groups that take as little as they can, (.+?)
SshUrlOf_LazyGroups(url) ==
    LET M == GithubHttpsMatches(url)
        i == Least({m[1] : m \in M})
        j == Least({m[2] : m \in {x \in M : x[1] = i}})
        k == Least({m[3] : m \in {x \in M : x[1] = i /\ x[2] = j}})
    IN  <<"git@github.com:">> \o SubSeq(url, i + 3, j - 1) \o <<"/">>
            \o SubSeq(url, j + 1, k - 1) \o <<".git">>

\* `git@github.com:${match[1]}/${match[2]}.git`, line 1434, for the leftmost
\* match with both groups greedy
SshUrlOf(url) ==
    LET M == GithubHttpsMatches(url)
        i == Least({m[1] : m \in M})
        j == Greatest({m[2] : m \in {x \in M : x[1] = i}})
        k == Greatest({m[3] : m \in {x \in M : x[1] = i /\ x[2] = j}})
    IN  <<"git@github.com:">> \o SubSeq(url, i + 3, j - 1) \o <<"/">>
            \o SubSeq(url, j + 1, k - 1) \o <<".git">>

\* convertToSSHRemote, lines 1423-1446. fail makes its last command fail.
ConvertToSSHRemote(r, fail) ==
    IF ~r.isRepo \/ r.remote = NoUrl
    THEN [repo |-> r, cmds |-> <<Cmd("git remote get-url origin", Null, "failed")>>]
    ELSE IF ~MatchesGithubHttps(r.remote)
    THEN [repo |-> r,
          cmds |-> <<Cmd("git remote get-url origin", Null, OkOr(~fail))>>]
    ELSE [repo |-> IF fail THEN r ELSE [r EXCEPT !.remote = SshUrlOf(r.remote)],
          cmds |-> <<Cmd("git remote get-url origin", Null, "ok"),
                     Cmd("git remote set-url origin", SshUrlOf(r.remote),
                         OkOr(~fail))>>]

\* ensureBranchExists, lines 594-630. failAt: the command made to fail
\* (1: git branch --list, 2: the checkout), 0 for none.
EnsureBranchExists(r, branchName, failAt) ==
    IF failAt = 0 /\ branchName \in ListedBranches(r) /\ CanCheckout(r, branchName)
    THEN GitCheckout(r, branchName)
    ELSE IF failAt = 0 /\ branchName \notin ListedBranches(r)
            /\ CanCheckoutNew(r, branchName)
         THEN GitCheckoutNew(r, branchName)
         \* the catch block: git checkout -b once more
         ELSE IF failAt # 0 /\ CanCheckoutNew(r, branchName)
              THEN GitCheckoutNew(r, branchName)
              ELSE r

\* The commands of ensureBranchExists, in order
EnsureBranchCmds(r, branchName, failAt) ==
    LET listed == branchName \in ListedBranches(r)
        again == <<Cmd("git checkout -b", branchName,
                       OkOr(CanCheckoutNew(r, branchName)))>>
    IN  IF failAt = 1
        THEN <<Cmd("git branch --list", Null, "failed")>> \o again
        ELSE <<Cmd("git branch --list", Null, "ok")>> \o
             (IF listed
              THEN IF failAt = 0 /\ CanCheckout(r, branchName)
                   THEN <<Cmd("git checkout", branchName, "ok")>>
                   ELSE <<Cmd("git checkout", branchName, "failed")>> \o again
              ELSE IF failAt = 0 /\ CanCheckoutNew(r, branchName)
                   THEN <<Cmd("git checkout -b", branchName, "ok")>>
                   ELSE <<Cmd("git checkout -b", branchName, "failed")>> \o again)

GitFail(failAt) == IF failAt = 0 THEN 0 ELSE 1


\* The commands of initializeRepository, lines 1360-1376
InitCmds(failAt) ==
    IF failAt = 1 THEN <<Cmd("git init", Null, "failed")>>
    ELSE <<Cmd("git init", Null, "ok"),
           Cmd("git branch -M main", Null, OkOr(failAt # 2))>>

\* The initialize prompt and what follows it, lines 274-293: initializeRepository
\* (git init, git branch -M main, setDefaultBranch) and setupRemoteOrigin with
\* the URL typed. failAt: 1 git init, 2 git branch -M, 3 git remote add; 0 none.
NoRepoPrompt(shouldInit, url, failAt, w) ==
    /\ pc = "noRepoPrompt"
    /\ IF ~shouldInit
       THEN /\ pc' = "main"
            /\ iterLog' = Append(iterLog, "noRepoPrompt")
            /\ run' = RunOf(currentAccount, <<Asked("shouldInit")>>)
            /\ failAt = 0 /\ w /\ url = SshGithub
            /\ UNCHANGED <<config, file, repos, lastOp, writeFailures, gitFailures>>
       ELSE LET r0 == repos[cwd]
                r1 == IF failAt = 1 THEN r0 ELSE GitInit(r0)
                renamed == r1.isRepo /\ failAt # 2
                r2 == IF renamed THEN GitRenameToMain(r1) ELSE r1
                setup == SetupRemoteOrigin(r2, url, failAt = 3)
            IN  /\ AcceptsRemoteUrl(url)
                /\ gitFailures + GitFail(failAt) <= MaxGitFailures
                /\ writeFailures + (IF renamed THEN Fails(w) ELSE 0) <= MaxWriteFailures
                /\ ~renamed => w
                /\ repos' = [repos EXCEPT ![cwd] = setup.repo]
                /\ config' = IF renamed THEN CfgSetDefaultBranch(config, "main")
                             ELSE config
                /\ file' = IF renamed THEN SaveConfig(config', file, w) ELSE file
                /\ lastOp' = IF setup.threw THEN ApplicationError
                             ELSE IF renamed
                             THEN [NoOp EXCEPT !.op = "initializeRepository",
                                               !.result = "ok", !.saved = SavedAs(w)]
                             ELSE lastOp
                /\ writeFailures' = writeFailures + (IF renamed THEN Fails(w) ELSE 0)
                /\ gitFailures' = gitFailures + GitFail(failAt)
                /\ iterLog' = iterLog \o <<"noRepoPrompt", "init", "remoteSetup">>
                /\ run' = RunOf(currentAccount,
                                <<Asked("shouldInit")>> \o InitCmds(failAt)
                                    \o setup.cmds)
                /\ pc' = IF setup.threw THEN "exited" ELSE "noRemoteCheck"
    /\ UNCHANGED <<keyFiles, gitUser, sshConfig, cwd, currentAccount, repoStatus,
                   pushView, hist, switches>>
    /\ UNCHANGED <<exec, peer>>

\* The check of line 295 without repoStatus.isGitRepo
NoRemoteCheck_IgnoresRepo(url, fail) ==
    /\ pc = "noRemoteCheck"
    /\ IF ~repoStatus.hasRemote
       THEN LET setup == SetupRemoteOrigin(repos[cwd], url, fail)
            IN  /\ AcceptsRemoteUrl(url)
                /\ gitFailures + Fails(~fail) <= MaxGitFailures
                /\ repos' = [repos EXCEPT ![cwd] = setup.repo]
                /\ gitFailures' = gitFailures + Fails(~fail)
                /\ iterLog' = Append(iterLog, "remoteSetup")
                /\ run' = RunOf(currentAccount, setup.cmds)
                /\ pc' = IF setup.threw THEN "exited" ELSE "httpsCheck"
                /\ lastOp' = IF setup.threw THEN ApplicationError ELSE lastOp
       ELSE /\ ~fail /\ url = SshGithub
            /\ run' = NoRun
            /\ pc' = "httpsCheck"
            /\ UNCHANGED <<repos, gitFailures, iterLog, lastOp>>
    /\ UNCHANGED <<config, file, keyFiles, gitUser, sshConfig, cwd, currentAccount,
                   repoStatus, pushView, hist, writeFailures, switches>>
    /\ UNCHANGED <<exec, peer>>

\* if (repoStatus.isGitRepo && !repoStatus.hasRemote), lines 295-298
NoRemoteCheck(url, fail) ==
    /\ pc = "noRemoteCheck"
    /\ IF repoStatus.isGitRepo /\ ~repoStatus.hasRemote
       THEN LET setup == SetupRemoteOrigin(repos[cwd], url, fail)
            IN  /\ AcceptsRemoteUrl(url)
                /\ gitFailures + Fails(~fail) <= MaxGitFailures
                /\ repos' = [repos EXCEPT ![cwd] = setup.repo]
                /\ gitFailures' = gitFailures + Fails(~fail)
                /\ iterLog' = Append(iterLog, "remoteSetup")
                /\ run' = RunOf(currentAccount, setup.cmds)
                /\ pc' = IF setup.threw THEN "exited" ELSE "httpsCheck"
                /\ lastOp' = IF setup.threw THEN ApplicationError ELSE lastOp
       ELSE /\ ~fail /\ url = SshGithub
            /\ run' = NoRun
            /\ pc' = "httpsCheck"
            /\ UNCHANGED <<repos, gitFailures, iterLog, lastOp>>
    /\ UNCHANGED <<config, file, keyFiles, gitUser, sshConfig, cwd, currentAccount,
                   repoStatus, pushView, hist, writeFailures, switches>>
    /\ UNCHANGED <<exec, peer>>

\* if (repoStatus.hasHttpsRemote), lines 300-307
HttpsCheck(fail) ==
    /\ pc = "httpsCheck"
    /\ IF repoStatus.hasHttpsRemote
       THEN LET conv == ConvertToSSHRemote(repos[cwd], fail)
            IN  /\ gitFailures + Fails(~fail) <= MaxGitFailures
                /\ repos' = [repos EXCEPT ![cwd] = conv.repo]
                /\ gitFailures' = gitFailures + Fails(~fail)
                /\ iterLog' = Append(iterLog, "convert")
                /\ run' = RunOf(currentAccount, conv.cmds)
       ELSE /\ ~fail
            /\ run' = NoRun
            /\ UNCHANGED <<repos, gitFailures, iterLog>>
    /\ pc' = "repoGate"
    /\ UNCHANGED <<config, file, keyFiles, gitUser, sshConfig, cwd, currentAccount,
                   repoStatus, pushView, lastOp, hist, writeFailures, switches>>
    /\ UNCHANGED <<exec, peer>>

\* if (!repoStatus.isGitRepo) continue, lines 309-311
RepoGate ==
    /\ pc = "repoGate"
    /\ pc' = IF repoStatus.isGitRepo THEN "firstRun" ELSE "loop"
    /\ run' = NoRun
    /\ UNCHANGED <<config, file, keyFiles, gitUser, sshConfig, cwd, repos,
                   currentAccount, repoStatus, iterLog, pushView, lastOp, hist,
                   writeFailures, switches, gitFailures>>
    /\ UNCHANGED <<exec, peer>>

\* What the branch prompts offer besides branches
CreateNew == "create-new"
Back == "back"
ExitChoice == "exit"

\* selectInitialBranch, lines 800-935. failAt: 1 git branch -a, 2 git branch,
\* 3 the checkout, 4 git push -u; 0 none. The result is the branch returned
\* (Null for Back to Homepage), the repository afterwards, and the user's pick
\* (Null when the prompt was not reached).
SelectInitialBranch(r, sel, newName, createRemote, failAt) ==
    LET listing == <<Cmd("git branch -a", Null, "ok"), Cmd("git branch", Null, "ok"),
                     Asked("selectedBranch")>>
        naming == <<Asked("newBranchName"), Asked("createRemote")>>
    IN
    IF failAt = 1
    THEN [branch |-> "main", repo |-> r, picked |-> Null, left |-> "no",
          cmds |-> <<Cmd("git branch -a", Null, "failed")>>]
    ELSE IF failAt = 2
    THEN [branch |-> "main", repo |-> r, picked |-> Null, left |-> "no",
          cmds |-> <<Cmd("git branch -a", Null, "ok"),
                     Cmd("git branch", Null, "failed")>>]
    ELSE IF sel = ExitChoice
    THEN [branch |-> Null, repo |-> r, picked |-> Null, left |-> "exit",
          cmds |-> listing]
    ELSE IF sel = Back
    THEN [branch |-> Null, repo |-> r, picked |-> Null, left |-> "back",
          cmds |-> listing]
    ELSE IF sel = CreateNew
    THEN IF CanCheckoutNew(r, newName) /\ failAt # 3
         THEN LET r1 == GitCheckoutNew(r, newName)
                  pushed == createRemote /\ CanPush(r1, newName) /\ failAt # 4
                  r2 == IF pushed THEN GitPushBranch(r1, newName) ELSE r1
              IN  [branch |-> newName, repo |-> r2, picked |-> newName, left |-> "no",
                   cmds |-> listing \o naming
                            \o <<Cmd("git checkout -b", newName, "ok")>>
                            \o IF createRemote
                               THEN <<Cmd("git push -u origin", newName, OkOr(pushed))>>
                               ELSE <<>>]
         \* the outer catch, lines 929-934
         ELSE [branch |-> "main", repo |-> r, picked |-> newName, left |-> "no",
               cmds |-> listing \o naming
                        \o <<Cmd("git checkout -b", newName, "failed")>>]
    ELSE LET checkout == IF sel \in ListedBranches(r) THEN "git checkout"
                         ELSE "git checkout -b"
         IN  IF failAt # 3
             THEN [branch |-> sel, repo |-> GitCheckout(r, sel), picked |-> sel,
                   left |-> "no", cmds |-> Append(listing, Cmd(checkout, sel, "ok"))]
             ELSE [branch |-> "main", repo |-> r, picked |-> sel, left |-> "no",
                   cmds |-> Append(listing, Cmd(checkout, sel, "failed"))]

\* if (this.config.isFirstTimeInRepo()), lines 313-329
FirstRun(sel, newName, createRemote, failAt, w1, w2) ==
    /\ pc = "firstRun"
    /\ IF ~IsFirstTimeInRepo(config, cwd)
       THEN /\ sel = Back /\ failAt = 0 /\ w1 /\ w2
            /\ pc' = "ensure"
            /\ run' = NoRun
            /\ UNCHANGED <<config, file, repos, iterLog, lastOp, hist,
                           writeFailures, gitFailures>>
       ELSE LET r == repos[cwd]
                s == SelectInitialBranch(r, sel, newName, createRemote, failAt)
                c1 == CfgSetRepoInitialized(config, cwd, s.branch)
                f1 == SaveConfig(c1, file, w1)
                c2 == CfgSetDefaultBranch(c1, s.branch)
                f2 == SaveConfig(c2, f1, w2)
            IN  /\ sel \in AllBranches(r) \cup {CreateNew, Back, ExitChoice}
                /\ gitFailures + GitFail(failAt) <= MaxGitFailures
                /\ gitFailures' = gitFailures + GitFail(failAt)
                /\ iterLog' = Append(iterLog, "firstRun")
                /\ run' = RunOf(currentAccount, s.cmds)
                /\ repos' = [repos EXCEPT ![cwd] = s.repo]
                /\ IF s.branch # Null
                   THEN /\ writeFailures + Fails(w1) + Fails(w2) <= MaxWriteFailures
                        /\ writeFailures' = writeFailures + Fails(w1) + Fails(w2)
                        /\ config' = c2
                        /\ file' = f2
                        /\ hist' = [hist EXCEPT !.picked = s.picked,
                                                !.recorded = s.branch,
                                                !.chosenIn[cwd] = s.branch]
                        /\ lastOp' = [NoOp EXCEPT !.op = "firstRun", !.result = "ok",
                                                  !.saved = SavedAs(w2)]
                        /\ pc' = "ensure"
                   ELSE /\ w1 /\ w2
                        /\ lastOp' = [NoOp EXCEPT !.op = "firstRun",
                                                  !.result = s.left]
                        /\ pc' = IF s.left = "exit" THEN "exited" ELSE "main"
                        /\ UNCHANGED <<config, file, hist, writeFailures>>
    /\ UNCHANGED <<keyFiles, gitUser, sshConfig, cwd, currentAccount, repoStatus,
                   pushView, switches>>
    /\ UNCHANGED <<exec, peer>>

\* ensureBranchExists(currentAccount, this.getDefaultBranch() || "main"),
\* lines 331-341, up to the menu prompt
EnsureBranch(failAt) ==
    /\ pc = "ensure"
    /\ gitFailures + GitFail(failAt) <= MaxGitFailures
    /\ gitFailures' = gitFailures + GitFail(failAt)
    /\ repos' = [repos EXCEPT
                   ![cwd] = EnsureBranchExists(@, GetDefaultBranch(config), failAt)]
    /\ run' = RunOf(currentAccount,
                    Append(EnsureBranchCmds(repos[cwd], GetDefaultBranch(config),
                                            failAt),
                           Cmd("git branch --show-current", Null, "ok")))
    /\ hist' = [hist EXCEPT !.ensured = GetDefaultBranch(config)]
    /\ pc' = "menu"
    /\ UNCHANGED <<config, file, keyFiles, gitUser, sshConfig, cwd, currentAccount,
                   repoStatus, iterLog, pushView, lastOp, writeFailures, switches>>
    /\ UNCHANGED <<exec, peer>>

\* Back to Accounts, lines 364-366
BackToAccounts ==
    /\ pc = "menu"
    /\ pc' = "main"
    /\ run' = NoRun
    /\ UNCHANGED <<config, file, keyFiles, gitUser, sshConfig, cwd, repos,
                   currentAccount, repoStatus, iterLog, pushView, lastOp, hist,
                   writeFailures, switches, gitFailures>>
    /\ UNCHANGED <<exec, peer>>

\* git commit: the checked-out branch has a commit from now on
GitCommit(r) ==
    IF r.current = Null THEN r
    ELSE [r EXCEPT !.branches = r.branches \cup {r.current}]

\* The choices of the push prompt, lines 691-701, and what the prompt shows of
\* the comparison with origin/<branch>: the code computes none
PushChoices == {"normal", "force"}
PushPrompt(branch, ahead, behind) ==
    [shown |-> TRUE, branch |-> branch, offered |-> PushChoices,
     first |-> "normal", recommended |-> Null, class |-> "none", ahead |-> ahead, behind |-> behind]

\* The commands of handlePush before it asks for the branch, lines 634-684,
\* for a commit of the staged files only
CommitCmds(hasUncommitted, shouldCommit, commitOk) ==
    <<Cmd("git status --porcelain", Null, "ok")>>
      \o (IF hasUncommitted THEN <<Asked("shouldCommit")>> ELSE <<>>)
      \o (IF shouldCommit
          THEN <<Asked("commitMessage"), Cmd("git commit -m", Null, OkOr(commitOk))>>
          ELSE <<>>)

\* handlePush up to the push prompt, lines 632-701. hasUncommitted is what
\* git status --porcelain answers; ahead and behind are the commits the local
\* branch and origin/<branch> have that the other has not.
HandlePush(hasUncommitted, shouldCommit, commitOk, ahead, behind) ==
    /\ pc = "menu"
    /\ ~hasUncommitted => ~shouldCommit
    /\ ~shouldCommit => commitOk
    /\ gitFailures + Fails(commitOk) <= MaxGitFailures
    /\ gitFailures' = gitFailures + Fails(commitOk)
    /\ IF shouldCommit /\ ~commitOk
       THEN /\ ahead = 0 /\ behind = 0
            /\ pc' = "loop"
            /\ run' = RunOf(currentAccount,
                            CommitCmds(hasUncommitted, shouldCommit, commitOk))
            /\ UNCHANGED <<repos, pushView>>
       ELSE LET r1 == IF shouldCommit THEN GitCommit(repos[cwd]) ELSE repos[cwd]
                cur == GetCurrentBranch(r1)
                currentBranch == IF cur = Null THEN GetDefaultBranch(config) ELSE cur
            IN  /\ repos' = [repos EXCEPT
                               ![cwd] = EnsureBranchExists(r1, currentBranch, 0)]
                /\ pushView' = PushPrompt(currentBranch, ahead, behind)
                /\ run' = RunOf(currentAccount,
                                CommitCmds(hasUncommitted, shouldCommit, commitOk)
                                  \o <<Cmd("git branch --show-current", Null, "ok")>>
                                  \o EnsureBranchCmds(r1, currentBranch, 0))
                /\ pc' = "pushPrompt"
    /\ UNCHANGED <<config, file, keyFiles, gitUser, sshConfig, cwd, currentAccount,
                   repoStatus, iterLog, lastOp, hist, writeFailures, switches>>
    /\ UNCHANGED <<exec, peer>>

\* git push [--force-with-lease] origin <branch>: a normal push is rejected
\* when origin/<branch> has commits the local branch has not
PushAccepted(r, branch, pushType, behind) ==
    CanPush(r, branch) /\ (pushType = "normal" => behind = 0)

\* How a push ends: "no upstream branch" is the text line 722 looks for
PushOutcomes == {"ok", "failed", "no upstream branch"}

\* The push commands of lines 703-743 with a follow-up that is tried again
\* when it fails
PushAttempts_FollowsUpTwice(branch, pushType, first, second) ==
    <<Cmd(IF pushType = "force" THEN "git push --force-with-lease origin"
          ELSE "git push origin", branch, first)>>
      \o (IF first = "no upstream branch"
          THEN <<Cmd("git push --set-upstream origin", branch, second)>>
          ELSE <<>>)
      \o (IF first = "no upstream branch" /\ second # "ok"
          THEN <<Cmd("git push --set-upstream origin", branch, second)>>
          ELSE <<>>)

\* The push commands of lines 703-743, in order: the push chosen, and
\* git push --set-upstream when its error.message holds "no upstream branch"
PushAttempts(branch, pushType, first, second) ==
    <<Cmd(IF pushType = "force" THEN "git push --force-with-lease origin"
          ELSE "git push origin", branch, first)>>
      \o IF first = "no upstream branch"
         THEN <<Cmd("git push --set-upstream origin", branch, second)>>
         ELSE <<>>

\* handlePush from the answer to the push prompt, lines 703-744. first: how
\* the push ends unless git refuses it; second: how the follow-up ends unless
\* git refuses it. A push made to fail and its follow-up count as one failure.
PushChoice(pushType, first, second, w) ==
    /\ pc = "pushPrompt"
    /\ pushType \in pushView.offered
    /\ first # "no upstream branch" => second = "ok"
    /\ gitFailures + Fails(first = "ok") <= MaxGitFailures
    /\ gitFailures' = gitFailures + Fails(first = "ok")
    /\ LET r == repos[cwd]
           branch == pushView.branch
           res1 == IF first = "ok"
                      /\ ~PushAccepted(r, branch, pushType, pushView.behind)
                   THEN "failed" ELSE first
           res2 == IF second = "ok"
                      /\ ~PushAccepted(r, branch, "normal", pushView.behind)
                   THEN "failed" ELSE second
           cmds == PushAttempts(branch, pushType, res1, res2)
       IN  /\ run' = RunOf(currentAccount, <<Asked("pushType")>> \o cmds)
           /\ IF cmds[1].res = "ok"
              THEN /\ writeFailures + Fails(w) <= MaxWriteFailures
                   /\ writeFailures' = writeFailures + Fails(w)
                   /\ repos' = [repos EXCEPT ![cwd] = GitPushBranch(@, branch)]
                   /\ config' = CfgSetDefaultBranch(config, branch)
                   /\ file' = SaveConfig(config', file, w)
                   /\ hist' = [hist EXCEPT !.chosenIn[cwd] = branch]
                   /\ lastOp' = [NoOp EXCEPT !.op = "push", !.method = pushType,
                                             !.result = "ok", !.saved = SavedAs(w)]
              ELSE /\ w
                   /\ repos' = IF cmds[Len(cmds)].res = "ok"
                               THEN [repos EXCEPT ![cwd] = GitPushBranch(@, branch)]
                               ELSE repos
                   /\ lastOp' = [NoOp EXCEPT
                                   !.op = "push", !.method = pushType,
                                   !.result = IF cmds[Len(cmds)].res = "ok"
                                              THEN "UpstreamSet" ELSE "PushFailed"]
                   /\ UNCHANGED <<config, file, hist, writeFailures>>
    /\ pushView' = NoPushView
    /\ pc' = "loop"
    /\ UNCHANGED <<keyFiles, gitUser, sshConfig, cwd, currentAccount, repoStatus,
                   iterLog, switches>>
    /\ UNCHANGED <<exec, peer>>

\* The commands of handleChangeBranch, in order
ChangeBranchCmds(r, sel, newName, createRemote, failAt) ==
    IF failAt = 1 THEN <<Cmd("git branch", Null, "failed")>>
    ELSE <<Cmd("git branch", Null, "ok"), Cmd("git branch --show-current", Null, "ok"),
           Asked("selectedBranch")>> \o
         (IF sel \in {Back, ExitChoice} THEN <<>>
          ELSE IF sel = CreateNew
          THEN LET created == CanCheckoutNew(r, newName) /\ failAt # 2
                   r1 == GitCheckoutNew(r, newName)
               IN  <<Asked("newBranchName"), Asked("createRemote"),
                     Cmd("git checkout -b", newName, OkOr(created))>>
                     \o IF created /\ createRemote
                        THEN <<Cmd("git push -u origin", newName,
                                   OkOr(CanPush(r1, newName) /\ failAt # 3))>>
                        ELSE <<>>
          ELSE IF sel # GetCurrentBranch(r)
          THEN <<Cmd("git checkout", sel, OkOr(failAt # 2))>>
          ELSE <<>>)

\* handleChangeBranch, lines 937-1052, for a branch, Create New Branch, Back
\* and Exit. failAt: 1 git branch, 2 the checkout, 3 git push -u; 0 none.
HandleChangeBranch(sel, newName, createRemote, failAt, w) ==
    /\ pc = "menu"
    /\ LET r == repos[cwd]
           target == IF sel = CreateNew THEN newName ELSE sel
           ok == /\ failAt \notin {1, 2}
                 /\ sel \notin {Back, ExitChoice}
                 /\ IF sel = CreateNew THEN CanCheckoutNew(r, newName)
                    ELSE sel # GetCurrentBranch(r)
           r1 == IF sel = CreateNew THEN GitCheckoutNew(r, newName)
                 ELSE GitCheckout(r, sel)
           r2 == IF sel = CreateNew /\ createRemote /\ CanPush(r1, newName)
                    /\ failAt # 3
                 THEN GitPushBranch(r1, newName) ELSE r1
       IN  /\ sel \in ListedBranches(r) \cup {CreateNew, Back, ExitChoice}
           /\ failAt = 1 => sel = Back
           /\ run' = RunOf(currentAccount,
                           ChangeBranchCmds(r, sel, newName, createRemote, failAt))
           /\ gitFailures + GitFail(failAt) <= MaxGitFailures
           /\ gitFailures' = gitFailures + GitFail(failAt)
           /\ IF ok
              THEN /\ writeFailures + Fails(w) <= MaxWriteFailures
                   /\ writeFailures' = writeFailures + Fails(w)
                   /\ repos' = [repos EXCEPT ![cwd] = r2]
                   /\ config' = CfgSetDefaultBranch(config, target)
                   /\ file' = SaveConfig(config', file, w)
                   /\ hist' = [hist EXCEPT !.chosenIn[cwd] = target]
                   /\ lastOp' = [NoOp EXCEPT !.op = "changeBranch", !.result = "ok",
                                             !.saved = SavedAs(w)]
              ELSE /\ w
                   /\ lastOp' = [NoOp EXCEPT !.op = "changeBranch",
                                             !.result = "unchanged"]
                   /\ UNCHANGED <<config, file, repos, hist, writeFailures>>
           /\ pc' = IF sel = ExitChoice /\ failAt # 1 THEN "exited" ELSE "loop"
    /\ UNCHANGED <<keyFiles, gitUser, sshConfig, cwd, currentAccount, repoStatus,
                   iterLog, pushView, switches>>
    /\ UNCHANGED <<exec, peer>>

----------------------------------------------------------------------------
(* The account store and the main menu, in a directory that is no repository *)

Init ==
    /\ config = DefaultStore
    /\ file = NoFile
    /\ keyFiles = {"id_rsa"}
    /\ gitUser = NoGitUser
    /\ sshConfig = <<>>
    /\ pc = "main"
    /\ cwd = "/A"
    /\ repos = [d \in Dirs |-> NotARepo]
    /\ currentAccount = NoAccount
    /\ repoStatus = NoStatus
    /\ iterLog = <<>>
    /\ pushView = NoPushView
    /\ lastOp = NoOp
    /\ hist = NoHist
    /\ writeFailures = 0
    /\ switches = 0
    /\ gitFailures = 0
    /\ run = NoRun
    /\ exec = NoExec
    /\ peer = NoPeer

\* What the user types and what fails in this scenario
SpecHandles == {"alice", "__proto__"}
SpecEmails == {"a@x.org"}
SpecOutcomes == {"ok", "failEmail"}

\* The prompts of the add-account flow: only the answers the chosen method asks for
AddAccountStep ==
    \E username \in SpecHandles, email \in SpecEmails, method \in AddMethods :
      \E existingKey \in (IF method = "file" THEN KeyNames ELSE {IdKey(username)}),
         tool \in (CASE method = "generate" -> {"ok", "fail"}
                     [] method = "paste" -> ToolOutcomes
                     [] OTHER -> {"ok"}),
         keyAdded \in (IF method = "generate" THEN BOOLEAN ELSE {TRUE}) :
        \E w1 \in BOOLEAN, w2 \in BOOLEAN, outcome \in SpecOutcomes :
            /\ AddResult(method, existingKey, tool, keyAdded, keyFiles) # "ok"
                    => (w1 /\ w2 /\ outcome = "ok")
            /\ AddAccount(username, email, method, existingKey, tool, keyAdded,
                          w1, w2, outcome)

RemoveAccountStep ==
    \E h \in Handles, confirmRemove \in BOOLEAN, w \in BOOLEAN :
        RemoveAccount(h, confirmRemove, w)

SelectAccountStep ==
    \E h \in Handles, w \in BOOLEAN, outcome \in SpecOutcomes :
        SelectAccount(h, w, outcome)

StartStep == \E dir \in {"/A"} : Start(dir)
NoRepoDeclineStep == NoRepoPrompt(FALSE, SshGithub, 0, TRUE)

Next ==
    \/ AddAccountStep
    \/ RemoveAccountStep
    \/ SelectAccountStep
    \/ CheckRepositoryStatus
    \/ NoRepoDeclineStep
    \/ Exit
    \/ StartStep

Spec == Init /\ [][Next]_vars

----------------------------------------------------------------------------
(* Properties of the account store and the main menu *)

\* C1: in every reachable state the active handle is null or a key of the
\* accounts map.
C1_ActiveIsNullOrKey ==
    config.currentAccount = Null \/ config.currentAccount \in ObjectKeys(config)

\* C2: a removal of the handle that is active, once carried out, leaves the
\* active handle null and the handle out of the accounts map.
C2_RemoveActiveClears ==
    [][(pc = "main" /\ lastOp'.op = "removeAccount" /\ lastOp'.result = "ok")
        => \A h \in Handles, w \in BOOLEAN :
              (config.currentAccount = h /\ RemoveAccount(h, TRUE, w))
                  => (config'.currentAccount = Null /\ h \notin ObjectKeys(config'))]_vars

\* The active account has just been removed
C2_RemovedActive ==
    /\ lastOp.op = "removeAccount"
    /\ lastOp.result = "ok"
    /\ lastOp.wasActive
    /\ config.currentAccount = Null

\* C3: an add-account flow with method "file" whose key is not under ~/.ssh
\* ends in KeyMissing and changes neither the store, nor the configuration
\* file, nor the git identity, nor the SSH configuration.
C3_KeyMissingChangesNothing ==
    [][(pc = "main" /\ lastOp'.op = "addAccount" /\ lastOp'.method = "file")
        => \A u \in Handles, e \in Emails, k \in KeyNames \ keyFiles,
              w1, w2 \in BOOLEAN, o \in SwitchOutcomes :
              AddAccount(u, e, "file", k, "ok", TRUE, w1, w2, o)
                  => /\ lastOp'.result = "KeyMissing"
                     /\ UNCHANGED <<config, file, gitUser, sshConfig, keyFiles,
                                    switches>>]_vars

\* An add-account flow has just ended in KeyMissing while an account is active
C3_KeyMissingSeen ==
    /\ lastOp.op = "addAccount"
    /\ lastOp.method = "file"
    /\ lastOp.result = "KeyMissing"
    /\ config.currentAccount # Null
    /\ sshConfig # <<>>

\* C4: after every store mutation the configuration file holds exactly the
\* in-memory store.
C4_FileEqualsStore ==
    lastOp.saved # "none" => file = [kind |-> "json", doc |-> Stringify(config)]

----------------------------------------------------------------------------
(* The operations loop, in two directories, with an account stored by an      *)
(* earlier session                                                            *)

AliceData == [name |-> "alice", email |-> "a@x.org", sshKey |-> "id_rsa",
              customKey |-> FALSE]
AliceStore ==
    CfgSetCurrentAccount(CfgAddAccount(DefaultStore, "alice", AliceData), "alice")
\* The store after that session also made the first-run selection in /A
AliceStoreUsedInA ==
    CfgSetDefaultBranch(CfgSetRepoInitialized(AliceStore, "/A", "main"), "main")
AliceSwitched ==
    SwitchAccount([username |-> "alice", name |-> "alice", email |-> "a@x.org",
                   sshKey |-> "id_rsa"], "ok", NoGitUser, <<>>)

Repo(remote, branches, remoteBranches) ==
    [isRepo |-> TRUE, remote |-> remote, branches |-> branches,
     remoteBranches |-> remoteBranches, current |-> "main"]
RepoPresets ==
    {NotARepo,
     Repo(NoUrl, {"main"}, {}),
     Repo(HttpsGithub, {"main"}, {"main"}),
     Repo(HttpsNoSuffix, {"main"}, {"main"}),
     Repo(SshGithub, {"main", "dev"}, {"main", "dev"})}

InitRepo ==
    /\ \E c \in {AliceStore, AliceStoreUsedInA} :
          /\ file = SaveConfig(c, NoFile, TRUE)
          /\ config = LoadConfig(file)
          /\ hist = [NoHist EXCEPT !.chosenIn["/A"] =
                        IF c = AliceStore THEN Null ELSE "main"]
          /\ repos \in {f \in [Dirs -> RepoPresets] :
                           /\ c # AliceStore => f["/A"].isRepo
                           /\ f["/B"] = Repo(SshGithub, {"main", "dev"}, {"main", "dev"})}
    /\ keyFiles = {"id_rsa"}
    /\ gitUser = AliceSwitched.gitUser
    /\ sshConfig = AliceSwitched.sshConfig
    /\ pc = "main"
    /\ cwd \in Dirs
    /\ currentAccount = NoAccount
    /\ repoStatus = NoStatus
    /\ iterLog = <<>>
    /\ pushView = NoPushView
    /\ lastOp = [NoOp EXCEPT !.op = "start"]
    /\ writeFailures = 0
    /\ switches = 0
    /\ gitFailures = 0
    /\ run = NoRun
    /\ exec = NoExec
    /\ peer = NoPeer

\* In this scenario every write of the configuration file succeeds
DiskWritable == {TRUE}
\* What the user types at the SSH URL prompt
TypedUrls == {SshGithub, SshWithSpace}

SelectStep == \E w \in DiskWritable : SelectAccount("alice", w, "ok")
NoRepoPromptStep ==
    \E shouldInit \in BOOLEAN, url \in TypedUrls, failAt \in 0..3,
       w \in DiskWritable :
        NoRepoPrompt(shouldInit, url, failAt, w)
NoRemoteCheckStep == \E url \in TypedUrls, fail \in BOOLEAN : NoRemoteCheck(url, fail)
HttpsCheckStep == \E fail \in BOOLEAN : HttpsCheck(fail)
FirstRunStep ==
    \E sel \in Branches \cup {CreateNew, Back, ExitChoice}, failAt \in 0..4,
       w1, w2 \in DiskWritable :
        \E newName \in IF sel = CreateNew THEN Branches ELSE {"main"},
           createRemote \in IF sel = CreateNew THEN BOOLEAN ELSE {FALSE} :
            FirstRun(sel, newName, createRemote, failAt, w1, w2)
EnsureBranchStep == \E failAt \in 0..2 : EnsureBranch(failAt)
HandlePushStep ==
    \E hasUncommitted, shouldCommit, commitOk \in BOOLEAN,
       ahead, behind \in 0..MaxCount :
        HandlePush(hasUncommitted, shouldCommit, commitOk, ahead, behind)
PushChoiceStep ==
    \E pushType \in {"normal", "force", "force-override"}, first \in PushOutcomes,
       second \in {"ok", "failed"}, w \in DiskWritable :
        PushChoice(pushType, first, second, w)
HandleChangeBranchStep ==
    \E sel \in Branches \cup {CreateNew, Back, ExitChoice}, failAt \in 0..3,
       w \in DiskWritable :
        \E newName \in IF sel = CreateNew THEN Branches ELSE {"main"},
           createRemote \in IF sel = CreateNew THEN BOOLEAN ELSE {FALSE} :
            HandleChangeBranch(sel, newName, createRemote, failAt, w)
StartInStep == \E dir \in Dirs : Start(dir)

RemoveStep ==
    \E confirmRemove \in BOOLEAN, w \in DiskWritable :
        RemoveAccount("alice", confirmRemove, w)

NextRepo ==
    \/ SelectStep
    \/ RemoveStep
    \/ CheckRepositoryStatus
    \/ NoRepoPromptStep
    \/ NoRemoteCheckStep
    \/ HttpsCheckStep
    \/ RepoGate
    \/ FirstRunStep
    \/ EnsureBranchStep
    \/ HandlePushStep
    \/ PushChoiceStep
    \/ HandleChangeBranchStep
    \/ BackToAccounts
    \/ Exit
    \/ StartInStep

SpecRepo == InitRepo /\ [][NextRepo]_vars

----------------------------------------------------------------------------
(* Properties of the store's file format and of the operations loop *)

C6_Rank(e) ==
    CASE e = "noRepoPrompt" -> 1
      [] e = "init" -> 2
      [] e = "remoteSetup" -> 3
      [] e = "convert" -> 4
      [] OTHER -> 5

C6_InOrder ==
    \A i, j \in DOMAIN iterLog : i < j => C6_Rank(iterLog[i]) < C6_Rank(iterLog[j])

\* C6, as amended: within one loop iteration the remediations run in the order
\* initialize, remote setup, HTTPS conversion, first-run selection; remote
\* setup runs only when the inspection reported a repository without remote,
\* or right after an accepted initialization when it reported no repository;
\* HTTPS conversion only when it reported a remote; first-run selection only
\* when it reported a repository.
C6_PlannerOrder ==
    /\ C6_InOrder
    /\ \A i \in DOMAIN iterLog :
          /\ iterLog[i] = "remoteSetup" =>
                IF repoStatus.isGitRepo THEN ~repoStatus.hasRemote
                ELSE i > 1 /\ iterLog[i - 1] = "init"
          /\ iterLog[i] = "convert" => repoStatus.hasRemote
          /\ iterLog[i] = "firstRun" => repoStatus.isGitRepo

\* Remote setup has run, and set the remote, in an iteration whose inspection
\* reported no repository
C6_SetupAfterInit ==
    /\ ~repoStatus.isGitRepo
    /\ \E i \in DOMAIN iterLog : iterLog[i] = "remoteSetup"
    /\ repos[cwd].remote = SshGithub

\* C6, as stated: the remediations run in the fixed order, remote setup only
\* when the inspection reported a repository, HTTPS conversion only when it
\* reported a remote, first-run selection only when it reported a repository.
C6_AsStated ==
    /\ C6_InOrder
    /\ \A i \in DOMAIN iterLog :
          /\ iterLog[i] = "remoteSetup" => repoStatus.isGitRepo
          /\ iterLog[i] = "convert" => repoStatus.hasRemote
          /\ iterLog[i] = "firstRun" => repoStatus.isGitRepo

\* C7: a completed first-run selection records the branch the user picked or
\* created and marks the directory, so that the selection is not entered
\* again; backing out records nothing.
C7_FirstRunRecordsPick ==
    /\ (lastOp.op = "firstRun" /\ lastOp.result = "ok" /\ hist.picked # Null)
          => /\ ~IsFirstTimeInRepo(config, cwd)
             /\ config.repoSettings[cwd].selectedBranch = hist.picked
    /\ (lastOp.op = "firstRun" /\ lastOp.result = "back")
          => IsFirstTimeInRepo(config, cwd)

\* C8: the branch the loop checks out on entry in a directory is the branch
\* last chosen in that directory.
C8_BranchPerDirectory ==
    (pc = "menu" /\ hist.ensured # Null /\ hist.chosenIn[cwd] # Null)
        => hist.ensured = hist.chosenIn[cwd]

\* The classes of a comparison with origin/<branch>, as the README's
\* "Intelligent Push Detection" names them
Classify(ahead, behind) ==
    CASE ahead > 0 /\ behind = 0 -> "ahead"
      [] ahead = 0 /\ behind > 0 -> "behind"
      [] ahead > 0 /\ behind > 0 -> "diverged"
      [] OTHER -> "even"

\* C9: at the push prompt the comparison is classified as exactly one of
\* ahead, behind, diverged, even.
C9_PushClassified ==
    pc = "pushPrompt" => pushView.class = Classify(pushView.ahead, pushView.behind)

\* C10: with local commits and nothing new on the remote, the push prompt
\* recommends the normal push and offers normal, force-with-lease and
\* force-override.
C10_AheadOffersThree ==
    (pc = "pushPrompt" /\ pushView.ahead > 0 /\ pushView.behind = 0)
        => /\ pushView.recommended = "normal"
           /\ pushView.offered = {"normal", "force-with-lease", "force-override"}

\* C11: with nothing local to push and new commits on the remote, the push
\* prompt recommends pull-then-push and offers pull-then-push,
\* force-with-lease, force-override and cancel.
C11_BehindOffersPull ==
    (pc = "pushPrompt" /\ pushView.ahead = 0 /\ pushView.behind > 0)
        => /\ pushView.recommended = "pull-then-push"
           /\ pushView.offered =
                {"pull-then-push", "force-with-lease", "force-override", "cancel"}

\* C12: with commits on both sides the comparison is classified diverged and
\* the first option of the push prompt is fetch-then-force.
C12_DivergedFetchFirst ==
    (pc = "pushPrompt" /\ pushView.ahead > 0 /\ pushView.behind > 0)
        => /\ pushView.class = "diverged"
           /\ pushView.first = "fetch-then-force"

\* C13: a push that fails with "no upstream branch" is followed, with no
\* prompt in between, by exactly one git push --set-upstream for the same
\* branch; when that one fails the failure is reported and no other push runs.
C13_OneUpstreamFollowUp ==
    (lastOp.op = "push" /\ run.cmds # <<>>
        /\ run.cmds[1].res = "no upstream branch")
        => /\ Len(run.cmds) = 2
           /\ run.cmds[2].cmd = "git push --set-upstream origin"
           /\ run.cmds[2].arg = run.cmds[1].arg
           /\ run.cmds[2].res # "ok" => lastOp.result = "PushFailed"
           /\ pc = "loop"

\* C13 happens: the push failed with "no upstream branch" and so did the
\* follow-up
C13_FollowUpFailed ==
    /\ lastOp.op = "push"
    /\ Len(run.cmds) = 2
    /\ run.cmds[1].res = "no upstream branch"
    /\ run.cmds[2].res = "failed"

----------------------------------------------------------------------------
(* The loop's treatment of an HTTPS remote, for the GitHub URLs of a user
   and a repository whose names are made of the pieces below *)

\* A name holds no "/"; it may hold ".git", as user.github.io does
NamePieces == {"u", "-", ".git"}
UrlNames == UNION {[1..n -> NamePieces] : n \in 1..MaxNameLen}

InitUrl ==
    /\ file = SaveConfig(AliceStoreUsedInA, NoFile, TRUE)
    /\ config = LoadConfig(file)
    /\ hist = [NoHist EXCEPT !.chosenIn["/A"] = "main"]
    /\ \E user \in UrlNames, repo \in UrlNames :
          repos = [d \in Dirs |-> IF d = "/A"
                                  THEN Repo(HttpsUrl(user, repo), {"main"}, {"main"})
                                  ELSE NotARepo]
    /\ keyFiles = {"id_rsa"}
    /\ gitUser = AliceSwitched.gitUser
    /\ sshConfig = AliceSwitched.sshConfig
    /\ pc = "loop"
    /\ cwd = "/A"
    /\ currentAccount = GetCurrentAccount(config)
    /\ repoStatus = NoStatus
    /\ iterLog = <<>>
    /\ pushView = NoPushView
    /\ lastOp = [NoOp EXCEPT !.op = "select", !.result = "ok", !.saved = "ok"]
    /\ writeFailures = 0
    /\ switches = 0
    /\ gitFailures = 0
    /\ run = NoRun
    /\ exec = NoExec
    /\ peer = NoPeer

NextUrl ==
    \/ CheckRepositoryStatus
    \/ NoRemoteCheckStep
    \/ HttpsCheckStep
    \/ RepoGate

SpecUrl == InitUrl /\ [][NextUrl]_vars

\* C14: for every remote https://github.com/<user>/<repo>.git the inspection
\* reports an HTTPS remote, and once the conversion has run without a failure
\* origin is git@github.com:<user>/<repo>.git.
C14_HttpsConvertedToSsh ==
    \A user \in UrlNames, repo \in UrlNames :
        repoStatus.remoteUrl = HttpsUrl(user, repo)
            => /\ repoStatus.hasHttpsRemote
               /\ (pc = "repoGate" /\ run.git /\ run.cmds = <<>>)
                     => repos[cwd].remote = SshUrl(user, repo)

\* C14 happens: a repository name that holds ".git" has been converted
C14_Converted ==
    /\ pc = "repoGate" /\ run.git /\ run.cmds = <<>>
    /\ repoStatus.remoteUrl = HttpsUrl(<<"u">>, <<"u", ".git">>)
    /\ repos[cwd].remote = SshUrl(<<"u">>, <<"u", ".git">>)

----------------------------------------------------------------------------
(* Two identities with keys of their own, a repository that is ready, and a
   configuration file that may be unreadable when the tool starts *)

BobData == [name |-> "bob", email |-> "b@x.org", sshKey |-> "id_bob",
            customKey |-> TRUE]
TwoStore == CfgAddAccount(AliceStoreUsedInA, "bob", BobData)
MenuHandles == {"alice", "bob"}
MenuKeys == {"id_rsa", "id_bob"}

InitMenu ==
    /\ file \in {SaveConfig(TwoStore, NoFile, TRUE), Truncated(Stringify(TwoStore)),
                  Garbled}
    /\ config = DefaultStore
    /\ hist = [NoHist EXCEPT !.chosenIn["/A"] = "main"]
    /\ repos = [d \in Dirs |-> IF d = "/A"
                                THEN Repo(SshGithub, {"main"}, {"main"})
                                ELSE NotARepo]
    /\ keyFiles = MenuKeys
    /\ gitUser = AliceSwitched.gitUser
    /\ sshConfig = AliceSwitched.sshConfig
    /\ pc = "exited"
    /\ cwd = "/A"
    /\ currentAccount = NoAccount
    /\ repoStatus = NoStatus
    /\ iterLog = <<>>
    /\ pushView = NoPushView
    /\ lastOp = [NoOp EXCEPT !.op = "exit"]
    /\ writeFailures = 0
    /\ switches = 0
    /\ gitFailures = 0
    /\ run = NoRun
    /\ exec = NoExec
    /\ peer = NoPeer

MenuStartStep == Start("/A")
MenuSelectStep == \E h \in MenuHandles : SelectAccount(h, TRUE, "ok")
MenuAddStep ==
    \E username \in MenuHandles, existingKey \in MenuKeys :
        AddAccount(username, "a@x.org", "file", existingKey, "ok", TRUE, TRUE, TRUE,
                   "ok")
MenuRemoveStep == \E h \in MenuHandles : RemoveAccount(h, TRUE, TRUE)
MenuFirstRunStep ==
    \E sel \in {"main", Back}, failAt \in {0, 3} :
        FirstRun(sel, "main", FALSE, failAt, TRUE, TRUE)
MenuHandlePushStep ==
    \E commit \in BOOLEAN, behind \in 0..MaxCount :
        HandlePush(commit, commit, TRUE, 1, behind)
MenuPushChoiceStep ==
    \E pushType \in PushChoices, first \in PushOutcomes, second \in {"ok", "failed"} :
        PushChoice(pushType, first, second, TRUE)

NextMenu ==
    \/ MenuStartStep
    \/ MenuSelectStep
    \/ MenuAddStep
    \/ MenuRemoveStep
    \/ CheckRepositoryStatus
    \/ NoRemoteCheckStep
    \/ HttpsCheckStep
    \/ RepoGate
    \/ MenuFirstRunStep
    \/ EnsureBranchStep
    \/ MenuHandlePushStep
    \/ MenuPushChoiceStep
    \/ BackToAccounts
    \/ Exit

SpecMenu == InitMenu /\ [][NextMenu]_vars

\* C15: whatever was selected, added or removed before, every git command of
\* the operations loop is given the key of the identity that is active in the
\* store when the command runs.
C15_CommandsUseActiveKey ==
    run.git => /\ config.currentAccount \in ObjectKeys(config)
               /\ run.key = config.accounts[config.currentAccount].sshKey

\* C15 happens: a push has run for bob, whose key is not the default one
C15_PushedAsBob ==
    /\ run.git /\ lastOp.op = "push"
    /\ config.currentAccount = "bob"
    /\ run.key = "id_bob"

\* C16: a step in which a git command failed never ends the process: it ends
\* at a prompt of a menu or at the top of the loop.
C16_FailureReturnsToMenu == run.cmds # <<>> => pc # "exited"

\* C17: within a step, a git command that follows a failed one at once, with
\* no prompt between them, is git push --set-upstream after "no upstream
\* branch" or git remote set-url after "already exists".
C17_OnlyTwoFallbacks ==
    \A i \in 1..(Len(run.cmds) - 1) :
        (IsGit(run.cmds[i]) /\ run.cmds[i].res # "ok" /\ IsGit(run.cmds[i + 1]))
            => \/ /\ run.cmds[i].res = "no upstream branch"
                  /\ run.cmds[i + 1].cmd = "git push --set-upstream origin"
               \/ /\ run.cmds[i].res = "already exists"
                  /\ run.cmds[i + 1].cmd = "git remote set-url origin"

\* C18: once a switch has written ~/.ssh/config it holds one github.com
\* block and nothing else: one Host line, one IdentityFile line, and no line
\* of an earlier switch.
C18_OneManagedBlock ==
    sshConfig # <<>>
        => /\ Cardinality({i \in DOMAIN sshConfig :
                              sshConfig[i] = <<"Host", "github.com">>}) = 1
           /\ Cardinality({i \in DOMAIN sshConfig :
                              sshConfig[i][1] = "IdentityFile"}) = 1
           /\ Len(sshConfig) = Len(ManagedBlock("id_rsa"))

\* C19: while a handle stays in the store, the identity stored under it does
\* not change.
C19_StoredIdentityKept ==
    [][\A h \in Handles :
          (h \in ObjectKeys(config) /\ h \in ObjectKeys(config'))
              => config'.accounts[h] = config.accounts[h]]_vars

\* C20: started on a configuration file that JSON.parse rejects, the tool
\* has the default store and is at the main menu; and whatever the file held,
\* a save that succeeded has left in it what saving the store to no file at
\* all would have written.
C20_UnparseableGivesDefault ==
    /\ (lastOp.op = "start" /\ file.kind \in {"truncated", "garbled"})
          => (config = DefaultStore /\ pc = "main")
    /\ lastOp.saved = "ok" => file = SaveConfig(config, NoFile, TRUE)

\* C20 happens: the tool has started on the cut-off file of a store that held
\* two accounts
C20_StartedOnTruncated ==
    /\ lastOp.op = "start"
    /\ file = Truncated(Stringify(TwoStore))
    /\ config = DefaultStore
    /\ pc = "main"

----------------------------------------------------------------------------
(* The tool started on a configuration file that is JSON but was not written *)
(* by saveConfig: some of the top-level keys are not in it.                  *)

TopLevelKeys == {"accounts", "currentAccount", "defaultBranch", "repoSettings"}

\* The text of doc without the members under the keys ks
WithoutKeys(doc, ks) == {m \in doc : m[1][1] \notin ks}

\* The text of doc with an empty default put in for accounts and
\* currentAccount where it has none ({} and null, line 28); no defaultBranch
\* and no repoSettings are the empty defaults of those two
WithDefaults(doc) ==
    doc \cup (IF HasMember(doc, <<"accounts">>) THEN {}
              ELSE {<<<<"accounts">>, JObject>>})
        \cup (IF HasMember(doc, <<"currentAccount">>) THEN {}
              ELSE {<<<<"currentAccount">>, JNull>>})

PartialFiles ==
    {[kind |-> "json", doc |-> WithoutKeys(Stringify(TwoStore), ks)] :
        ks \in (SUBSET TopLevelKeys) \ {{}}}

InitStore ==
    /\ file \in PartialFiles
    /\ config = DefaultStore
    /\ hist = NoHist
    /\ repos = [d \in Dirs |-> IF d = "/A"
                                THEN Repo(SshGithub, {"main"}, {"main"})
                                ELSE NotARepo]
    /\ keyFiles = MenuKeys
    /\ gitUser = AliceSwitched.gitUser
    /\ sshConfig = AliceSwitched.sshConfig
    /\ pc = "exited"
    /\ cwd = "/A"
    /\ currentAccount = NoAccount
    /\ repoStatus = NoStatus
    /\ iterLog = <<>>
    /\ pushView = NoPushView
    /\ lastOp = [NoOp EXCEPT !.op = "exit"]
    /\ writeFailures = 0
    /\ switches = 0
    /\ gitFailures = 0
    /\ run = NoRun
    /\ exec = NoExec
    /\ peer = NoPeer

SpecStore == InitStore /\ [][NextMenu]_vars

\* C21: started on a JSON configuration file that lacks top-level keys, no
\* store operation fails, and the store answers getAccounts, getCurrentAccount,
\* isFirstTimeInRepo and getDefaultBranch as it would had the file held the
\* empty default under each missing key.
C21_MissingKeysAsDefaults ==
    /\ lastOp.result # "TypeError"
    /\ lastOp.op = "start"
          => LET filled == Parse(WithDefaults(file.doc))
             IN  /\ ObjectKeys(config) = ObjectKeys(filled)
                 /\ GetCurrentAccount(config) = GetCurrentAccount(filled)
                 /\ \A d \in Dirs :
                       IsFirstTimeInRepo(config, d) = IsFirstTimeInRepo(filled, d)
                 /\ GetDefaultBranch(config) = GetDefaultBranch(filled)

----------------------------------------------------------------------------
(* Change Branch -> Delete Branch *)

\* What git branch prints, as handleDeleteBranch reads it (lines 1056-1060):
\* the local branches and, on a detached HEAD, the line "(HEAD detached at ...)"
HeadDetachedLine == "(HEAD detached)"
GitBranchLines(r) ==
    r.branches \cup (IF r.current = Null THEN {HeadDetachedLine} ELSE {})

\* deletableBranches, lines 1062-1065
DeletableBranches(r, currentBranch) ==
    {b \in GitBranchLines(r) : b # currentBranch}

\* The answers to "Delete from GitHub too?", lines 1107-1111
DeleteChoices == {"both", "local", "cancel"}

\* git push origin --delete <b> and git branch -D <b>; git refuses to delete
\* the branch that is checked out
CanDeleteRemote(r, b) == r.remote # NoUrl /\ b \in r.remoteBranches
CanDeleteLocal(r, b) == b \in r.branches /\ b # r.current
GitDeleteRemote(r, b) == [r EXCEPT !.remoteBranches = r.remoteBranches \ {b}]
GitDeleteLocal(r, b) == [r EXCEPT !.branches = r.branches \ {b}]

\* handleChangeBranch for the choice Delete Branch (lines 977-980) and
\* handleDeleteBranch, lines 1054-1169. failAt: the command made to fail
\* (1: git branch, 2: git branch --show-current, 3: git ls-remote, 4: git push
\* origin --delete, 5: git branch -D), 0 for none.
HandleDeleteBranch(branchToDelete, deleteRemote, failAt) ==
    /\ pc = "menu"
    /\ gitFailures + GitFail(failAt) <= MaxGitFailures
    /\ gitFailures' = gitFailures + GitFail(failAt)
    /\ LET r == repos[cwd]
           currentBranch == IF failAt = 2 THEN Null ELSE GetCurrentBranch(r)
           deletable == IF failAt = 1 THEN {}
                        ELSE DeletableBranches(r, currentBranch)
           chosen == branchToDelete # Back
           remoteExists == chosen /\ failAt # 3 /\ branchToDelete \in r.remoteBranches
           cancelled == remoteExists /\ deleteRemote = "cancel"
           remoteCmd == remoteExists /\ deleteRemote = "both"
           localCmd == chosen /\ ~cancelled
           r1 == IF remoteCmd /\ failAt # 4 /\ CanDeleteRemote(r, branchToDelete)
                 THEN GitDeleteRemote(r, branchToDelete) ELSE r
           r2 == IF localCmd /\ failAt # 5 /\ CanDeleteLocal(r1, branchToDelete)
                 THEN GitDeleteLocal(r1, branchToDelete) ELSE r1
           cmds ==
               <<Cmd("git branch", Null, "ok"),
                 Cmd("git branch --show-current", Null, "ok"),
                 Asked("selectedBranch"),
                 Cmd("git branch", Null, OkOr(failAt # 1))>>
               \o (IF failAt = 1 THEN <<>>
                   ELSE <<Cmd("git branch --show-current", Null, OkOr(failAt # 2))>>)
               \o (IF deletable = {} THEN <<>> ELSE <<Asked("branchToDelete")>>)
               \o (IF chosen
                   THEN <<Cmd("git ls-remote --heads origin", branchToDelete,
                              OkOr(failAt # 3 /\ r.remote # NoUrl))>>
                   ELSE <<>>)
               \o (IF remoteExists THEN <<Asked("deleteRemote")>> ELSE <<>>)
               \o (IF remoteCmd
                   THEN <<Cmd("git push origin --delete", branchToDelete,
                              OkOr(r1 # r))>>
                   ELSE <<>>)
               \o (IF localCmd
                   THEN <<Cmd("git branch -D", branchToDelete, OkOr(r2 # r1))>>
                   ELSE <<>>)
       IN  /\ branchToDelete \in deletable \cup {Back}
           /\ ~remoteExists => deleteRemote = "local"
           /\ failAt = 3 => chosen
           /\ failAt = 4 => remoteCmd
           /\ failAt = 5 => localCmd
           /\ repos' = [repos EXCEPT ![cwd] = r2]
           /\ run' = RunOf(currentAccount, cmds)
           /\ lastOp' = [op |-> "deleteBranch", method |-> deleteRemote,
                         result |-> IF r2 # r THEN "ok" ELSE "unchanged",
                         wasActive |-> FALSE, saved |-> "none",
                         checkedOut |-> r.current,
                         offered |-> deletable,
                         remoteDelete |-> IF remoteCmd THEN {branchToDelete} ELSE {},
                         localDelete |-> IF localCmd THEN {branchToDelete} ELSE {}]
    /\ pc' = "loop"
    /\ UNCHANGED <<config, file, keyFiles, gitUser, sshConfig, cwd, currentAccount,
                   repoStatus, iterLog, pushView, hist, writeFailures, switches>>
    /\ UNCHANGED <<exec, peer>>

----------------------------------------------------------------------------
(* The operations loop in a repository whose HEAD may be detached: git      *)
(* branch --show-current prints nothing there, which getCurrentBranch       *)
(* returns as "", falsy like the null of its catch.                         *)

Detached(r) == [r EXCEPT !.current = Null]

InitHead ==
    /\ file = SaveConfig(TwoStore, NoFile, TRUE)
    /\ config = DefaultStore
    /\ hist = [NoHist EXCEPT !.chosenIn["/A"] = "main"]
    /\ \E r \in {Repo(SshGithub, {"main"}, {"main"}),
                  Repo(SshGithub, {"main", "dev"}, {"main"})} :
          \E head \in {r, Detached(r)} :
              repos = [d \in Dirs |-> IF d = "/A" THEN head ELSE NotARepo]
    /\ keyFiles = MenuKeys
    /\ gitUser = AliceSwitched.gitUser
    /\ sshConfig = AliceSwitched.sshConfig
    /\ pc = "exited"
    /\ cwd = "/A"
    /\ currentAccount = NoAccount
    /\ repoStatus = NoStatus
    /\ iterLog = <<>>
    /\ pushView = NoPushView
    /\ lastOp = [NoOp EXCEPT !.op = "exit"]
    /\ writeFailures = 0
    /\ switches = 0
    /\ gitFailures = 0
    /\ run = NoRun
    /\ exec = NoExec
    /\ peer = NoPeer

HeadDeleteBranchStep ==
    \E branchToDelete \in Branches \cup {HeadDetachedLine, Back},
       deleteRemote \in DeleteChoices, failAt \in 0..5 :
        HandleDeleteBranch(branchToDelete, deleteRemote, failAt)

NextHead ==
    \/ NextMenu
    \/ HeadDeleteBranchStep

SpecHead == InitHead /\ [][NextHead]_vars

\* C22: from the choice of Push to the prompt for the push strategy, nothing
\* about the repository changes other than by the commit the user asked for:
\* not the checked-out branch, the branches or the remote.
C22_NoEffectBeforeStrategy ==
    [][(pc = "menu" /\ pc' = "pushPrompt")
          => repos'[cwd] \in {repos[cwd], GitCommit(repos[cwd])}]_vars

\* C23: the delete-branch flow does not offer the branch that is checked out
\* and issues no local or remote delete command for it; it issues a remote
\* delete only when the user chose to delete both, and none after Cancel.
C23_CheckedOutBranchNotDeleted ==
    lastOp.op = "deleteBranch"
        => /\ lastOp.checkedOut \notin lastOp.offered
           /\ lastOp.checkedOut \notin lastOp.remoteDelete \cup lastOp.localDelete
           /\ lastOp.remoteDelete # {} => lastOp.method = "both"
           /\ lastOp.method = "cancel"
                 => lastOp.remoteDelete \cup lastOp.localDelete = {}

----------------------------------------------------------------------------
(* The handlers of the operations menu, command by command: each call of    *)
(* executeGitCommand starts a child process (exec, line 170) and returns a  *)
(* promise that settles in the callback of exec, when the child has ended.  *)

\* Whether the call site of a command awaits the promise. Every call of
\* executeGitCommand in src/index.js is an operand of await.
Awaited_FireAndForget(c) == FALSE

Awaited(c) == TRUE

\* handlePush, lines 632-744, as the commands and prompts it goes through
HandlePushCmds(r, hasUncommitted, shouldCommit, commitOk, pushType, first, second) ==
    CommitCmds(hasUncommitted, shouldCommit, commitOk)
      \o (IF shouldCommit /\ ~commitOk THEN <<>>
          ELSE <<Cmd("git branch --show-current", Null, "ok")>>
                 \o EnsureBranchCmds(r, r.current, 0)
                 \o <<Asked("pushType")>>
                 \o PushAttempts(r.current, pushType, first, second))

\* What one handler of the loop goes through in repository r
Flows(r) ==
    {StatusCmds(r)}
    \cup {EnsureBranchCmds(r, b, failAt) : b \in Branches, failAt \in 0..2}
    \cup {HandlePushCmds(r, a[1], a[2], a[3], a[4], a[5], a[6]) :
            a \in {x \in BOOLEAN \X BOOLEAN \X BOOLEAN \X PushChoices
                          \X PushOutcomes \X {"ok", "failed"} :
                      /\ (~x[1] => ~x[2])
                      /\ (~x[2] => x[3])}}
    \cup {ChangeBranchCmds(r, sel, "dev", createRemote, failAt) :
            sel \in ListedBranches(r) \cup {CreateNew, Back},
            createRemote \in BOOLEAN, failAt \in 0..3}
    \cup {ConvertToSSHRemote(r, fail).cmds : fail \in BOOLEAN}

ExecIdle == exec.at > Len(exec.flow) /\ exec.running = {}

\* The statement after a call runs at once when the call is not awaited, and
\* when it is, once the child of that call has ended
CanProceed == \A i \in exec.running : ~Awaited(exec.flow[i])

\* A handler is entered from the menu
ExecBegin ==
    /\ pc = "menu"
    /\ ExecIdle
    /\ \E flow \in Flows(repos[cwd]) :
          exec' = [flow |-> flow, at |-> 1, running |-> {}, prompting |-> FALSE]
    /\ UNCHANGED <<config, file, keyFiles, gitUser, sshConfig, pc, cwd, repos,
                   currentAccount, repoStatus, iterLog, pushView, lastOp, hist,
                   writeFailures, switches, gitFailures, run, peer>>

\* exec(command, { env }, callback), line 170: the child process is started
ExecStart ==
    /\ exec.at <= Len(exec.flow)
    /\ IsGit(exec.flow[exec.at])
    /\ CanProceed
    /\ exec' = [exec EXCEPT !.running = @ \cup {exec.at}, !.at = @ + 1,
                            !.prompting = FALSE]
    /\ UNCHANGED <<config, file, keyFiles, gitUser, sshConfig, pc, cwd, repos,
                   currentAccount, repoStatus, iterLog, pushView, lastOp, hist,
                   writeFailures, switches, gitFailures, run, peer>>

\* inquirer.prompt: a prompt is shown, and answered
ExecPrompt ==
    /\ exec.at <= Len(exec.flow)
    /\ ~IsGit(exec.flow[exec.at])
    /\ CanProceed
    /\ exec' = [exec EXCEPT !.at = @ + 1, !.prompting = TRUE]
    /\ UNCHANGED <<config, file, keyFiles, gitUser, sshConfig, pc, cwd, repos,
                   currentAccount, repoStatus, iterLog, pushView, lastOp, hist,
                   writeFailures, switches, gitFailures, run, peer>>

\* The callback of exec, lines 170-176: the child has ended, with or without
\* an error, and the promise is resolved or rejected
ExecFinish ==
    /\ \E i \in exec.running : exec' = [exec EXCEPT !.running = @ \ {i}]
    /\ UNCHANGED <<config, file, keyFiles, gitUser, sshConfig, pc, cwd, repos,
                   currentAccount, repoStatus, iterLog, pushView, lastOp, hist,
                   writeFailures, switches, gitFailures, run, peer>>

InitExec ==
    /\ config = TwoStore
    /\ file = SaveConfig(TwoStore, NoFile, TRUE)
    /\ hist = [NoHist EXCEPT !.chosenIn["/A"] = "main", !.ensured = "main"]
    /\ \E r \in {Repo(SshGithub, {"main"}, {"main"}),
                  Repo(SshGithub, {"main", "dev"}, {"main"})} :
          /\ repos = [d \in Dirs |-> IF d = "/A" THEN r ELSE NotARepo]
          /\ repoStatus = RepoStatusOf(r)
    /\ keyFiles = MenuKeys
    /\ gitUser = AliceSwitched.gitUser
    /\ sshConfig = AliceSwitched.sshConfig
    /\ pc = "menu"
    /\ cwd = "/A"
    /\ currentAccount = GetCurrentAccount(TwoStore)
    /\ iterLog = <<>>
    /\ pushView = NoPushView
    /\ lastOp = NoOp
    /\ writeFailures = 0
    /\ switches = 1
    /\ gitFailures = 0
    /\ run = [key |-> "id_rsa", git |-> TRUE, cmds |-> <<>>]
    /\ exec = NoExec
    /\ peer = NoPeer

NextExec ==
    \/ ExecBegin
    \/ ExecStart
    \/ ExecPrompt
    \/ ExecFinish

SpecExec == InitExec /\ [][NextExec]_vars

----------------------------------------------------------------------------
(* Two instances of the tool, one per terminal, on the same configuration   *)
(* file. The variables of the process are those of the instance the user is *)
(* at; peer holds those of the other one.                                   *)

\* The user turns to the other terminal
SwitchTerminal ==
    /\ peer' = [config |-> config, pc |-> pc, cwd |-> cwd,
                currentAccount |-> currentAccount, repoStatus |-> repoStatus,
                iterLog |-> iterLog, pushView |-> pushView]
    /\ config' = peer.config
    /\ pc' = peer.pc
    /\ cwd' = peer.cwd
    /\ currentAccount' = peer.currentAccount
    /\ repoStatus' = peer.repoStatus
    /\ iterLog' = peer.iterLog
    /\ pushView' = peer.pushView
    /\ lastOp' = [NoOp EXCEPT !.op = "switchTerminal"]
    /\ run' = NoRun
    /\ UNCHANGED <<file, keyFiles, gitUser, sshConfig, repos, hist, writeFailures,
                   switches, gitFailures, exec>>

InitPeer ==
    /\ file = SaveConfig(AliceStoreUsedInA, NoFile, TRUE)
    /\ config = DefaultStore
    /\ hist = [NoHist EXCEPT !.chosenIn["/A"] = "main"]
    /\ repos = [d \in Dirs |-> IF d = "/A"
                                THEN Repo(SshGithub, {"main"}, {"main"})
                                ELSE NotARepo]
    /\ keyFiles = MenuKeys
    /\ gitUser = AliceSwitched.gitUser
    /\ sshConfig = AliceSwitched.sshConfig
    /\ pc = "exited"
    /\ cwd = "/A"
    /\ currentAccount = NoAccount
    /\ repoStatus = NoStatus
    /\ iterLog = <<>>
    /\ pushView = NoPushView
    /\ lastOp = [NoOp EXCEPT !.op = "exit"]
    /\ writeFailures = 0
    /\ switches = 0
    /\ gitFailures = 0
    /\ run = NoRun
    /\ exec = NoExec
    /\ peer = NoPeer

NextPeer ==
    \/ NextMenu
    \/ SwitchTerminal

SpecPeer == InitPeer /\ [][NextPeer]_vars

\* The handles of the accounts object in a configuration file
FileHandles(f) == KeysUnder(f.doc, "accounts")

\* C25: a mutation is applied to what the file holds when it is made: an
\* account another instance has finished writing to the file is still in the
\* file after a write by this instance, unless the write is the removal of an
\* account. (The writes of two instances never overlap here.)
C25_PersistedChangesKept ==
    [][(file' # file /\ lastOp'.op # "removeAccount")
          => FileHandles(file) \subseteq FileHandles(file')]_vars

\* C26: when the operations menu is offered, the working directory is a git
\* repository with an origin remote whose URL is not an https one.
C26_MenuOnlyWhenReady ==
    pc = "menu"
        => /\ repos[cwd].isRepo
           /\ repos[cwd].remote # NoUrl
           /\ repos[cwd].remote[1] # "https://"

\* C27: at a menu prompt, when the store has an active identity, the global
\* git user is that identity's name and email and the github.com block at
\* the head of ~/.ssh/config names its key.
C27_ActiveIdentityApplied ==
    (pc \in {"main", "menu"} /\ config.currentAccount \in ObjectKeys(config))
        => LET active == config.accounts[config.currentAccount]
           IN  /\ gitUser = [name |-> active.name, email |-> active.email]
               /\ Len(sshConfig) >= Len(ManagedBlock(active.sshKey))
               /\ SubSeq(sshConfig, 1, Len(ManagedBlock(active.sshKey)))
                     = ManagedBlock(active.sshKey)

----------------------------------------------------------------------------
(* Switching accounts with a ~/.ssh/config that has entries of the user's   *)

\* Host github.com-work: a second GitHub identity under an alias
WorkEntry ==
    << <<"Host", "github.com-work">>, <<"HostName", "github.com">>,
       <<"User", "git">>, <<"IdentityFile", "id_work">> >>
\* Host gitlab.com
GitlabEntry == << <<"Host", "gitlab.com">>, <<"IdentityFile", "id_gitlab">> >>

SshPresets ==
    {GitlabEntry,
     AliceSwitched.sshConfig \o GitlabEntry,
     AliceSwitched.sshConfig \o WorkEntry,
     WorkEntry \o GitlabEntry}

InitSsh ==
    /\ file = SaveConfig(TwoStore, NoFile, TRUE)
    /\ config = DefaultStore
    /\ hist = [NoHist EXCEPT !.chosenIn["/A"] = "main"]
    /\ repos = [d \in Dirs |-> IF d = "/A"
                                THEN Repo(SshGithub, {"main"}, {"main"})
                                ELSE NotARepo]
    /\ keyFiles = MenuKeys
    /\ gitUser = AliceSwitched.gitUser
    /\ sshConfig \in SshPresets
    /\ pc = "exited"
    /\ cwd = "/A"
    /\ currentAccount = NoAccount
    /\ repoStatus = NoStatus
    /\ iterLog = <<>>
    /\ pushView = NoPushView
    /\ lastOp = [NoOp EXCEPT !.op = "exit"]
    /\ writeFailures = 0
    /\ switches = 0
    /\ gitFailures = 0
    /\ run = NoRun
    /\ exec = NoExec
    /\ peer = NoPeer

SpecSsh == InitSsh /\ [][NextMenu]_vars

\* The Host entry line i of an ssh config belongs to: the argument of the
\* last Host line at or before it, Null before the first one
EntryOf(lines, i) ==
    LET hosts == {j \in 1..i : lines[j][1] = "Host"}
    IN  IF hosts = {} THEN Null
        ELSE lines[CHOOSE j \in hosts : \A k \in hosts : k <= j][2]

\* The lines of the entries other than Host github.com, each with its entry
ForeignLines(lines) ==
    {<<EntryOf(lines, i), lines[i]>> :
        i \in {j \in DOMAIN lines : EntryOf(lines, j) \notin {Null, "github.com"}}}

\* C28: a switch leaves every line of a Host entry other than the github.com
\* block as it is and in its entry, also in an entry whose alias begins with
\* github.com and in an entry that follows the block.
C28_OtherEntriesKept ==
    [][ForeignLines(sshConfig) \subseteq ForeignLines(sshConfig')]_vars
====
